---- MODULE Spec2Model ----
(***************************************************************************)
(* Inventory ledger and bonus engine of the hockey-equipment bot:          *)
(* services/core_service.py (CoreService), services/price_service.py      *)
(* (PriceService), data/db.py, config.py.                                  *)
(*                                                                         *)
(* Money is kept in whole roubles; a Bonus amount is kept in hundredths    *)
(* of a rouble (margin * percent), which is margin * (percent / 100)       *)
(* without the division.  Time is kept at the granularity the bonus        *)
(* engine reads it: the calendar month.                                    *)
(***************************************************************************)
EXTENDS Integers, Sequences, FiniteSets, TLC

(* ------------------------------ bounds -------------------------------- *)
MaxSales == 2
MaxLog == 3
MaxHistory == 2
MaxBatches == 3

(* ------------------------------ inputs -------------------------------- *)
ProductIds == {1, 2}
InputProductIds == ProductIds \cup {3}     \* 3: an id no product has
AgentIds == {1, 2}
AdminIds == {1}
ActorIds == AdminIds \cup {2}             \* 2: a seller, not in ADMIN_IDS
Prices == {0, 6000, 50000}
Months == {1, 2}
Quantities == {-1, 1, 2}
Sessions == {1, 2}
None == 0

(* A nullable column or an Optional argument: NULL, or a value.  Python's  *)
(* "x or 0" and "if x:" treat NULL and 0 alike.                            *)
NULL == << >>
Some(x) == <<x>>
OrZero(o) == IF o = NULL THEN 0 ELSE o[1]
Truthy(o) == o # NULL /\ o[1] # 0

(* ------------------------------ the upload ----------------------------- *)
(* create_batch_from_excel.  The handlers call the copy of it in           *)
(* CoreService (core_service.py:55-231); BatchService's copy               *)
(* (batch_service.py:34-213) is the same code but for the text of the      *)
(* duplicate error.  A file is the set of its column names and the         *)
(* sequence of its rows; a cell is empty (pd.isna: NULL) or holds a value. *)
(* Weights are kept in tenths of a kilogram, so that the default 0.1 is 1; *)
(* the text columns model, color and age are copied like name and size and *)
(* are left out.                                                            *)
EXCEL_TEMPLATE_COLUMNS ==
    {"EAN", "name", "model", "color", "size", "age", "fit", "weight",
     "quantity", "price_eur", "exchange_rate", "coefficient",
     "logistics_per_kg", "warehouse"}

(* str.strip() and str.lower() on the strings of the model.                *)
Strip(s) == CASE s = " A " -> "A" [] s = " " -> "" [] OTHER -> s
Lower(s) == CASE s = "Wide" -> "wide" [] OTHER -> s

Fits == {"regular", "tapered", "wide"}
WeightDefault == 1
TenthsPerKg == 10

(* value if not pd.isna(value) else default                                *)
NotNa(cell, default) == IF cell = NULL THEN default ELSE cell[1]

(* df.dropna(how='all'): the rows with a cell that is not empty, each      *)
(* under the index it had in the file.                                     *)
RECURSIVE DropNa(_, _)
DropNa(rows, i) ==
    IF i > Len(rows) THEN << >>
    ELSE (IF \A f \in DOMAIN rows[i] : rows[i][f] = NULL THEN << >>
          ELSE << [idx |-> i - 1, row |-> rows[i]] >>)
         \o DropNa(rows, i + 1)

(* The cells of a row as the loop reads them, lines 104-140.               *)
Name(row) == IF row.name = NULL THEN "no name" ELSE Strip(row.name[1])

Size(row) == IF row.size = NULL THEN "" ELSE Strip(row.size[1])

Fit(row) ==
    LET fit == IF row.fit = NULL THEN "regular" ELSE Strip(Lower(row.fit[1]))
    IN IF fit \notin Fits THEN "regular" ELSE fit

Weight(row) ==
    LET weight == NotNa(row.weight, WeightDefault)
    IN IF weight <= 0 THEN WeightDefault ELSE weight

Quantity(row) == NotNa(row.quantity, 0)

PriceEur(row) == NotNa(row.price_eur, 0)

ExchangeRate(row) ==
    LET exchange_rate == NotNa(row.exchange_rate, 1)
    IN IF exchange_rate <= 0 THEN 1 ELSE exchange_rate

Coefficient(row) ==
    LET coefficient == NotNa(row.coefficient, 1)
    IN IF coefficient <= 0 THEN 1 ELSE coefficient

LogisticsPerKg(row) ==
    LET logistics_per_kg == NotNa(row.logistics_per_kg, 0)
    IN IF logistics_per_kg < 0 THEN 0 ELSE logistics_per_kg

(* cost_price = price_eur * exchange_rate * coefficient                    *)
(*              + weight * logistics_per_kg                                *)
CostPrice(row) ==
    PriceEur(row) * ExchangeRate(row) * Coefficient(row)
        + (Weight(row) * LogisticsPerKg(row)) \div TenthsPerKg

(* Product(ean=..., ..., batch_id=batch.id); retail_price is not set and   *)
(* stays NULL.  warehouse is product.batch.warehouse, which the sale reads *)
(* through the relationship.                                                *)
NewProduct(row, ean, batch) ==
    [ean |-> ean, name |-> Name(row), size |-> Size(row), fit |-> Fit(row),
     weight |-> Weight(row),
     quantity |-> Quantity(row), price_eur |-> PriceEur(row),
     exchange_rate |-> ExchangeRate(row), coefficient |-> Coefficient(row),
     logistics_per_kg |-> LogisticsPerKg(row), cost_price |-> CostPrice(row),
     retail_price |-> NULL, batch_id |-> batch.id,
     warehouse |-> batch.warehouse]

(* errors.append(f"... {idx+2}: ..."): the row of the sheet and what was   *)
(* wrong with it.                                                           *)
RowError(idx, kind) == [line |-> idx + 2, kind |-> kind]

(* A duplicate check that lets every row through.                          *)
DuplicateInFileNever(seen, ean) == FALSE

(* if ean in ean_count                                                     *)
DuplicateInFile(seen, ean) == ean \in seen

(* A lookup of the EAN in every batch.                                      *)
ExistingProductOfAnyBatch(P, ean, batch_id) == {p \in DOMAIN P : P[p].ean = ean}

(* db.query(Product).filter_by(ean=ean, batch_id=batch.id): the session    *)
(* does not autoflush, so the query sees the rows of the table, not the    *)
(* products this call has added.                                            *)
ExistingProduct(P, ean, batch_id) ==
    {p \in DOMAIN P : P[p].ean = ean /\ P[p].batch_id = batch_id}

(* StockLog(product_id, operation_type='in', quantity, warehouse,          *)
(*          reference_id=batch.id)                                         *)
InRow(product_id, quantity, batch) ==
    [product_id |-> product_id, operation_type |-> "in", quantity |-> quantity,
     warehouse |-> batch.warehouse, reference_id |-> batch.id]

(* One pass of the loop over the rows, lines 87-193.  acc holds the locals *)
(* of the call: the EANs met (ean_count), products, errors; and what the   *)
(* session holds unflushed: P, the Product table with the quantities the   *)
(* loop has raised, and log, the StockLog rows it has added.               *)
IterRow(idx, row, batch, acc) ==
    IF row.ean = NULL \/ Strip(row.ean[1]) = ""
    THEN [acc EXCEPT !.errors = Append(@, RowError(idx, "no_ean"))]
    ELSE LET ean == Strip(row.ean[1])
             met == [acc EXCEPT !.seen = @ \cup {ean}]
             existing_product == ExistingProduct(acc.P, ean, batch.id)
         IN IF DuplicateInFile(acc.seen, ean)
            THEN [acc EXCEPT !.errors = Append(@, RowError(idx, "duplicate"))]
            ELSE IF Quantity(row) < 0
            THEN [met EXCEPT !.errors = Append(@, RowError(idx, "neg_quantity"))]
            ELSE IF PriceEur(row) < 0
            THEN [met EXCEPT !.errors = Append(@, RowError(idx, "neg_price"))]
            ELSE IF existing_product # {}
            THEN LET p == CHOOSE q \in existing_product :
                              \A o \in existing_product : q <= o
                 IN [met EXCEPT
                        !.P = [@ EXCEPT ![p].quantity = @ + Quantity(row)],
                        !.log = Append(@, InRow(p, Quantity(row), batch)),
                        !.errors = Append(@, RowError(idx, "merged"))]
            ELSE [met EXCEPT !.products = Append(@, NewProduct(row, ean, batch))]

RECURSIVE IterRows(_, _, _, _)
IterRows(df, i, batch, acc) ==
    IF i > Len(df) THEN acc
    ELSE IterRows(df, i + 1, batch, IterRow(df[i].idx, df[i].row, batch, acc))

(* db.flush(): the products of the call get the next primary keys.         *)
Flushed(P, pending) ==
    LET n == Cardinality(DOMAIN P)
    IN [p \in 1 .. (n + Len(pending)) |->
           IF p <= n THEN P[p] ELSE pending[p - n]]

(* A ledger that leaves out the products received with quantity 0.         *)
InRowsOfStocked(P, n, batch) ==
    SelectSeq([i \in 1 .. (Cardinality(DOMAIN P) - n) |->
                  InRow(n + i, P[n + i].quantity, batch)],
              LAMBDA r : r.quantity > 0)

(* for product in products: db.add(StockLog(...)), lines 208-216: one 'in' *)
(* row for each product with a primary key above n.                        *)
InRows(P, n, batch) ==
    [i \in 1 .. (Cardinality(DOMAIN P) - n) |->
        InRow(n + i, P[n + i].quantity, batch)]

(* datetime.now() is an instant, here in half seconds; strftime with       *)
(* '%Y%m%d-%H%M%S' keeps its whole seconds.                                *)
TicksPerSecond == 2
BatchNumber(t) == <<"BATCH", t \div TicksPerSecond>>

(* Whether batches.batch_number is declared unique is written in           *)
(* data/models.py; both schemas are followed.  With the constraint, the    *)
(* flush of a Batch whose number is in the table raises IntegrityError.    *)
BatchNumberUnique == BOOLEAN

(* A rollback that keeps what was flushed.                                  *)
RolledBackKeepingFlushed(db, flushed) == flushed

(* db.rollback(): the tables as the last commit left them.                 *)
RolledBack(db, flushed) == db

(* create_batch_from_excel on the tables db = [batches, products,          *)
(* stockLog]: what it raises or returns, and the tables it leaves.         *)
CreateBatchFromExcel(db, file, warehouse, created_by_id, t, unique) ==
    LET df == DropNa(file.rows, 1)
        batch == [id |-> Len(db.batches) + 1, batch_number |-> BatchNumber(t),
                  warehouse |-> warehouse, created_by_id |-> created_by_id]
        with_batch == [db EXCEPT !.batches = Append(@, batch)]
        acc == IterRows(df, 1, batch,
                        [seen |-> {}, products |-> << >>, errors |-> << >>,
                         P |-> db.products, log |-> << >>])
        n == Cardinality(DOMAIN db.products)
        flushed == Flushed(acc.P, acc.products)
        Raised(err, errors, tables) ==
            [ok |-> FALSE, err |-> err, errors |-> errors, batch |-> NULL,
             products |-> << >>, db |-> tables]
    IN IF ~(EXCEL_TEMPLATE_COLUMNS \subseteq file.columns)
       THEN Raised("missing_columns", << >>, RolledBack(db, db))
       ELSE IF df = << >>
       THEN Raised("no_data", << >>, RolledBack(db, db))
       ELSE IF unique /\ \E i \in DOMAIN db.batches :
                             db.batches[i].batch_number = batch.batch_number
       THEN Raised("integrity", << >>, RolledBack(db, db))
       ELSE IF acc.products = << >>
       THEN Raised("no_products", acc.errors,
                   RolledBack(db, [with_batch EXCEPT
                                      !.products = acc.P,
                                      !.stockLog = @ \o acc.log]))
       ELSE [ok |-> TRUE, err |-> "", errors |-> acc.errors,
             batch |-> Some(batch),
             products |-> [i \in 1 .. Len(acc.products) |-> n + i],
             db |-> [batches |-> with_batch.batches,
                     products |-> flushed,
                     stockLog |-> db.stockLog \o acc.log
                                     \o InRows(flushed, n, batch)]]

(* The rows of the model's files.                                          *)
FileRow(ean, quantity, price_eur) ==
    [ean |-> ean, name |-> Some("skates"), size |-> Some("M"),
     fit |-> Some("regular"),
     weight |-> Some(10), quantity |-> quantity, price_eur |-> price_eur,
     exchange_rate |-> Some(100), coefficient |-> Some(1),
     logistics_per_kg |-> Some(0)]

RowA == FileRow(Some("A"), Some(2), Some(10))
RowB == [FileRow(Some("B"), Some(1), Some(49)) EXCEPT
            !.name = Some("stick"), !.size = Some("L"),
            !.weight = Some(2), !.logistics_per_kg = Some(500)]

SheetOf(rows) == [columns |-> EXCEL_TEMPLATE_COLUMNS, rows |-> rows]

(* The tables the properties of sales, bonuses and prices start from: two  *)
(* files have been received, a pair of skates at cost 1000 into warehouse  *)
(* w1 and one at cost 5000 into warehouse w2.                               *)
EmptyDb == [batches |-> << >>, products |-> << >>, stockLog |-> << >>]

InitDb ==
    CreateBatchFromExcel(
        CreateBatchFromExcel(EmptyDb, SheetOf(<<RowA>>), "w1", 1, 0, FALSE).db,
        SheetOf(<<RowB>>), "w2", 1, 2, FALSE).db

InitProducts == InitDb.products

(* The column defaults of the tables (data/models.py): a Sale is dated at  *)
(* its INSERT and not returned, a Bonus is not paid, a BonusRule is        *)
(* active.                                                                  *)
SaleDefaults(m) == [sale_date |-> m, is_returned |-> FALSE]
BonusDefaults == [is_paid |-> FALSE, paid_at |-> None]
RuleDefaults == [is_active |-> TRUE]

(* config.DEFAULT_BONUS_RULES as init_db stores them: float('inf') is      *)
(* stored as 999999999.                                                     *)
InfStored == 999999999

BonusRules ==
    << [min_amount |-> 0, max_amount |-> 50000, percent |-> 5,
        is_active |-> RuleDefaults.is_active],
       [min_amount |-> 50000, max_amount |-> 100000, percent |-> 7,
        is_active |-> RuleDefaults.is_active],
       [min_amount |-> 100000, max_amount |-> 200000, percent |-> 10,
        is_active |-> RuleDefaults.is_active],
       [min_amount |-> 200000, max_amount |-> InfStored, percent |-> 12,
        is_active |-> RuleDefaults.is_active] >>

VARIABLES
    products,   \* Product table: id -> row
    sales,      \* Sale table: sequence of rows, id = index
    stockLog,   \* StockLog table: sequence of rows
    bonuses,    \* Bonus table: set of rows
    nextBonusId,\* next primary key of the Bonus table
    actionLog,  \* ActionLog table: the number of its rows
    priceHistory, \* PriceHistory table: sequence of rows
    batches,    \* Batch table: sequence of rows, id = index
    now,        \* current calendar month
    last,       \* outcome of the last completed call
    pc,         \* per session: position inside a call
    loc,        \* per session: local variables of the call
    writer      \* session holding SQLite's write lock, or None

tables == <<products, sales, stockLog, bonuses, nextBonusId, actionLog,
            priceHistory, batches>>
sess == <<pc, loc, writer>>
vars == <<products, sales, stockLog, bonuses, nextBonusId, actionLog,
          priceHistory, batches, now, last, pc, loc, writer>>

(* ------------------------- derived quantities -------------------------- *)
RECURSIVE SumQty(_, _, _)
SumQty(S, p, n) ==
    IF n = 0 THEN 0
    ELSE SumQty(S, p, n - 1)
         + (IF S[n].product_id = p /\ S[n].is_returned = FALSE
            THEN S[n].quantity ELSE 0)

RECURSIVE SumQtyWithReturned(_, _, _)
SumQtyWithReturned(S, p, n) ==
    IF n = 0 THEN 0
    ELSE SumQtyWithReturned(S, p, n - 1)
         + (IF S[n].product_id = p THEN S[n].quantity ELSE 0)

(* A stock sum that forgets the is_returned filter.                         *)
SoldQuantityIgnoringReturns(S, p) == SumQtyWithReturned(S, p, Len(S))

(* func.sum(Sale.quantity) filtered by product and is_returned == False,   *)
(* "or 0".                                                                  *)
SoldQuantity(S, p) == SumQty(S, p, Len(S))

(* current_stock = product.quantity - sold_quantity                        *)
CurrentStock(P, S, p) == P[p].quantity - SoldQuantity(S, p)

(* if current_stock < quantity: raise ValueError                           *)
InsufficientStock(current_stock, quantity) == current_stock < quantity

(* ----------------------------- bonus engine ---------------------------- *)
RECURSIVE SumMargin(_, _, _, _)
SumMargin(S, a, m, n) ==
    IF n = 0 THEN 0
    ELSE SumMargin(S, a, m, n - 1)
         + (IF S[n].agent_id = a /\ S[n].sale_date >= m /\ S[n].is_returned = FALSE
            THEN S[n].margin ELSE 0)

RECURSIVE SumMarginOfAllAgents(_, _, _)
SumMarginOfAllAgents(S, m, n) ==
    IF n = 0 THEN 0
    ELSE SumMarginOfAllAgents(S, m, n - 1)
         + (IF S[n].sale_date >= m /\ S[n].is_returned = FALSE
            THEN S[n].margin ELSE 0)

(* A monthly total that forgets the agent.                                  *)
MonthSalesOfAllAgents(S, a, m) == SumMarginOfAllAgents(S, m, Len(S))

RECURSIVE SumMarginWithReturned(_, _, _, _)
SumMarginWithReturned(S, a, m, n) ==
    IF n = 0 THEN 0
    ELSE SumMarginWithReturned(S, a, m, n - 1)
         + (IF S[n].agent_id = a /\ S[n].sale_date >= m THEN S[n].margin ELSE 0)

(* A monthly total that forgets the is_returned filter.                     *)
MonthSalesWithReturned(S, a, m) == SumMarginWithReturned(S, a, m, Len(S))

(* func.sum(Sale.margin) over the agent's non-returned sales with          *)
(* sale_date >= current_month_start, "or 0".                               *)
MonthSales(S, a, m) == SumMargin(S, a, m, Len(S))

RuleIds == 1 .. Len(BonusRules)

(* The tier filter with both ends inclusive.                                *)
RuleMatchesClosed(r, total) ==
    /\ BonusRules[r].is_active
    /\ BonusRules[r].min_amount <= total
    /\ BonusRules[r].max_amount >= total

(* is_active == True, min_amount <= month_sales, max_amount > month_sales  *)
RuleMatches(r, total) ==
    /\ BonusRules[r].is_active
    /\ BonusRules[r].min_amount <= total
    /\ BonusRules[r].max_amount > total

MatchingRules(total) == {r \in RuleIds : RuleMatches(r, total)}

(* .first(): the matching row the table yields first, None when no row.    *)
FindRule(total) ==
    IF MatchingRules(total) = {} THEN None
    ELSE CHOOSE r \in MatchingRules(total) : \A q \in MatchingRules(total) : r <= q

(* margin * (rule.percent / 100), in hundredths of a rouble                *)
BonusAmount(margin, percent) == margin * percent

(* calculate_bonus: (bonus_amount, rule), or (0, None)                     *)
CalculateBonus(S, a, margin, m) ==
    LET month_sales == MonthSales(S, a, m)
        rule == FindRule(month_sales)
    IN IF rule # None
       THEN [amount |-> BonusAmount(margin, BonusRules[rule].percent),
             rule |-> rule, month_sales |-> month_sales]
       ELSE [amount |-> 0, rule |-> None, month_sales |-> month_sales]

(* ------------------------------- rows ---------------------------------- *)
(* margin_per_unit = sale_price - cost_price; total_margin = it * quantity *)
TotalMargin(P, p, sale_price, quantity) == (sale_price - P[p].cost_price) * quantity

(* margin_percent = (margin_per_unit / sale_price * 100) if sale_price > 0 *)
(* else 0, as the fraction <<numerator, denominator>>.                     *)
MarginPercent(P, p, sale_price) ==
    IF sale_price > 0 THEN <<(sale_price - P[p].cost_price) * 100, sale_price>>
    ELSE <<0, 1>>

(* The Sale row create_sale adds; sale_date and is_returned get the column *)
(* defaults at the INSERT.                                                  *)
SaleRow(P, p, a, sale_price, quantity, m) ==
    [product_id |-> p, agent_id |-> a, quantity |-> quantity,
     sale_price |-> sale_price,
     margin |-> TotalMargin(P, p, sale_price, quantity),
     margin_percent |-> MarginPercent(P, p, sale_price),
     warehouse |-> P[p].warehouse,
     sale_date |-> SaleDefaults(m).sale_date,
     is_returned |-> SaleDefaults(m).is_returned]

NoRow == [product_id |-> None]
NoCalc == [amount |-> 0, rule |-> None, month_sales |-> 0]

(* What calculate_bonus's query sees when create_sale has left out the     *)
(* flush of the new Sale.                                                   *)
VisibleSalesWithoutFlush(S, row) == S

(* What the session's own queries see after db.add(sale); db.flush(): the  *)
(* committed rows and its own inserted row.                                 *)
VisibleSales(S, row) == Append(S, row)

(* What a call handed back: ok or the error raised, the id it is about,    *)
(* the product, the number it computed (stock: the current stock of        *)
(* create_sale and get_product_info, the total of pay_bonuses, the count   *)
(* of bulk_update; for a preview the limit it was called with),            *)
(* calculate_bonus's result; and what it was called with: the acting user, *)
(* the pricing arguments.  preview holds what preview_bulk_price_update    *)
(* returned, errors the row errors create_batch_from_excel collected.      *)
Outcome(op, ok, err, id, p, stock, calc) ==
    [op |-> op, ok |-> ok, err |-> err, id |-> id, product |-> p,
     stock |-> stock, calc |-> calc, actor |-> None, args |-> << >>,
     preview |-> {}, errors |-> << >>, listing |-> {}]

ByActor(outcome, actor) == [outcome EXCEPT !.actor = actor]

PriceArgs(ids, new_price, increase_percent) ==
    [ids |-> ids, new_price |-> new_price, increase_percent |-> increase_percent]

(* log_action: LOG_ACTIONS is True, one ActionLog row is added and         *)
(* committed.                                                               *)
LogAction(log) == log + 1

(* ----------------------------- Init ------------------------------------ *)
IdleLoc == [p |-> None, a |-> None, price |-> 0, q |-> 0, stock |-> 0,
            row |-> NoRow, id |-> None, calc |-> NoCalc, rows |-> {},
            actor |-> None]

Init ==
    /\ products = InitProducts
    /\ batches = InitDb.batches
    /\ sales = << >>
    /\ stockLog = InitDb.stockLog
    /\ bonuses = {}
    /\ nextBonusId = 1
    /\ actionLog = 0
    /\ priceHistory = << >>
    /\ now = 1
    /\ last = Outcome("none", TRUE, "", None, None, 0, NoCalc)
    /\ pc = [s \in Sessions |-> "idle"]
    /\ loc = [s \in Sessions |-> IdleLoc]
    /\ writer = None

AllIdle == \A s \in Sessions : pc[s] = "idle"

(* --------------------------- create_sale ------------------------------- *)
BonusRow(id, row, sale_id, calc) ==
    [id |-> id, agent_id |-> row.agent_id, sale_id |-> sale_id,
     rule_id |-> calc.rule, amount |-> calc.amount,
     percent_used |-> BonusRules[calc.rule].percent,
     is_paid |-> BonusDefaults.is_paid, paid_at |-> BonusDefaults.paid_at]

(* A create_sale that books a Bonus whatever the sign of its amount.        *)
NewBonusesAnySign(id, row, sale_id, calc) ==
    IF calc.rule # None THEN {BonusRow(id, row, sale_id, calc)} ELSE {}

(* A create_sale that books the Bonus on the agent's first sale.            *)
NewBonusesOnFirstSale(id, row, sale_id, calc) ==
    IF calc.amount > 0 /\ calc.rule # None
    THEN {BonusRow(id, row, 1, calc)} ELSE {}

(* if bonus_amount > 0 and bonus_rule: db.add(Bonus(...))                  *)
NewBonuses(id, row, sale_id, calc) ==
    IF calc.amount > 0 /\ calc.rule # None
    THEN {BonusRow(id, row, sale_id, calc)} ELSE {}

(* StockLog(product_id, operation_type='out', quantity, warehouse =        *)
(*          product.batch.warehouse, reference_id=sale.id)                 *)
OutRow(row, sale_id) ==
    [product_id |-> row.product_id, operation_type |-> "out",
     quantity |-> row.quantity, warehouse |-> row.warehouse,
     reference_id |-> sale_id]

(* The writes of create_sale from db.add(sale) to db.commit(): the Sale,   *)
(* the 'out' StockLog row and, when bonus_amount > 0 and a rule was found, *)
(* the Bonus.  calc is what calculate_bonus returned.                      *)
PersistSale(row, calc) ==
    LET sale_id == Len(sales) + 1
    IN /\ sales' = Append(sales, row)
       /\ stockLog' = Append(stockLog, OutRow(row, sale_id))
       /\ bonuses' = bonuses \cup NewBonuses(nextBonusId, row, sale_id, calc)
       /\ nextBonusId' = nextBonusId
                           + Cardinality(NewBonuses(nextBonusId, row, sale_id, calc))

(* create_sale as one call that nothing interleaves with.                  *)
CreateSale(p, a, sale_price, quantity) ==
    /\ AllIdle
    /\ IF p \notin DOMAIN products
       THEN /\ last' = Outcome("create_sale", FALSE, "not_found", None, p, 0, NoCalc)
            /\ UNCHANGED tables
       ELSE LET current_stock == CurrentStock(products, sales, p)
                row == SaleRow(products, p, a, sale_price, quantity, now)
                calc == CalculateBonus(VisibleSales(sales, row), a, row.margin, now)
            IN IF InsufficientStock(current_stock, quantity)
               THEN /\ last' = Outcome("create_sale", FALSE, "insufficient", None, p,
                                       current_stock, NoCalc)
                    /\ UNCHANGED tables
               ELSE /\ Len(sales) < MaxSales
                    /\ PersistSale(row, calc)
                    /\ actionLog' = LogAction(actionLog)
                    /\ last' = Outcome("create_sale", TRUE, "", Len(sales) + 1, p,
                                       current_stock, calc)
                    /\ UNCHANGED <<products, batches, priceHistory>>
    /\ UNCHANGED <<now, sess>>

(* --------------------------- return_sale ------------------------------- *)
(* db.query(Bonus).filter_by(sale_id=sale_id).first()                      *)
BonusOfSale(B, sale_id) == {b \in B : b.sale_id = sale_id}

(* A return that deletes the bonus whether or not it was paid.              *)
BonusToDeleteEvenPaid(B, sale_id) == BonusOfSale(B, sale_id)

(* if bonus and not bonus.is_paid: db.delete(bonus)                        *)
BonusToDelete(B, sale_id) ==
    IF BonusOfSale(B, sale_id) = {} THEN {}
    ELSE LET bonus == CHOOSE b \in BonusOfSale(B, sale_id) :
                          \A c \in BonusOfSale(B, sale_id) : b.id <= c.id
         IN IF bonus.is_paid = FALSE THEN {bonus} ELSE {}

(* A return that removes the Sale row instead of flagging it.               *)
MarkReturnedByDeleting(S, sale_id) ==
    [i \in 1 .. Len(S) - 1 |-> IF i < sale_id THEN S[i] ELSE S[i + 1]]

(* sale.is_returned = True                                                 *)
MarkReturned(S, sale_id) ==
    [S EXCEPT ![sale_id].is_returned = TRUE]

(* A return that books the goods out once more.                             *)
ReturnRowBookedOut(sale, sale_id) ==
    [product_id |-> sale.product_id, operation_type |-> "out",
     quantity |-> sale.quantity, warehouse |-> sale.warehouse,
     reference_id |-> sale_id]

(* StockLog(product_id=sale.product_id, operation_type='return',           *)
(*          quantity=sale.quantity, warehouse=sale.warehouse,              *)
(*          reference_id=sale.id)                                          *)
ReturnRow(sale, sale_id) ==
    [product_id |-> sale.product_id, operation_type |-> "return",
     quantity |-> sale.quantity, warehouse |-> sale.warehouse,
     reference_id |-> sale_id]

(* The guard of return_sale without the already-returned test.              *)
ReturnRejectedOnlyMissing(S, sale_id) ==
    IF sale_id \notin DOMAIN S THEN "not_found" ELSE ""

(* if not sale: raise; if sale.is_returned: raise                          *)
ReturnRejected(S, sale_id) ==
    IF sale_id \notin DOMAIN S THEN "not_found"
    ELSE IF S[sale_id].is_returned THEN "already_returned"
    ELSE ""

ReturnSale(sale_id, admin) ==
    /\ AllIdle
    /\ IF ReturnRejected(sales, sale_id) # ""
       THEN /\ last' = ByActor(Outcome("return_sale", FALSE,
                                       ReturnRejected(sales, sale_id),
                                       sale_id, None, 0, NoCalc), admin)
            /\ UNCHANGED tables
       ELSE /\ sales' = MarkReturned(sales, sale_id)
            /\ stockLog' = Append(stockLog, ReturnRow(sales[sale_id], sale_id))
            /\ bonuses' = bonuses \ BonusToDelete(bonuses, sale_id)
            /\ actionLog' = LogAction(actionLog)
            /\ last' = ByActor(Outcome("return_sale", TRUE, "", sale_id, None, 0,
                                        NoCalc), admin)
            /\ UNCHANGED <<products, batches, nextBonusId, priceHistory>>
    /\ UNCHANGED <<now, sess>>

(* ---------------------------- pay_bonuses ------------------------------ *)
(* A filter that forgets the agent.                                         *)
UnpaidBonusesOfAnyAgent(B, a) == {b \in B : b.is_paid = FALSE}

(* Bonus.agent_id == agent_id, Bonus.is_paid == False                      *)
UnpaidBonuses(B, a) == {b \in B : b.agent_id = a /\ b.is_paid = FALSE}

RECURSIVE SumAmount(_)
SumAmount(B) ==
    IF B = {} THEN 0
    ELSE LET b == CHOOSE x \in B : TRUE IN b.amount + SumAmount(B \ {b})

PayBonuses(a, admin) ==
    /\ AllIdle
    /\ actionLog < MaxLog
    /\ bonuses' = {IF b \in UnpaidBonuses(bonuses, a)
                   THEN [b EXCEPT !.is_paid = TRUE, !.paid_at = now] ELSE b :
                   b \in bonuses}
    /\ actionLog' = LogAction(actionLog)
    /\ last' = ByActor(Outcome("pay_bonuses", TRUE, "", a, None,
                               SumAmount(UnpaidBonuses(bonuses, a)), NoCalc),
                       admin)
    /\ UNCHANGED <<products, batches, sales, stockLog, nextBonusId,
                   priceHistory, now, sess>>

(* ------------------------- confirm_reset_bonus ------------------------- *)
(* A reset that takes the agent's paid bonuses too.                         *)
BonusesToResetEvenPaid(B, a) == {b \in B : b.agent_id = a}

(* The handler's query: Bonus.agent_id == agent_id, Bonus.is_paid == False *)
BonusesToReset(B, a) == {b \in B : b.agent_id = a /\ b.is_paid = FALSE}

(* The handler deletes the agent's unpaid bonuses, commits and logs.       *)
ResetBonuses(a, actor) ==
    /\ AllIdle
    /\ actionLog < MaxLog
    /\ bonuses' = bonuses \ BonusesToReset(bonuses, a)
    /\ actionLog' = LogAction(actionLog)
    /\ last' = ByActor(Outcome("reset_bonuses", TRUE, "", a, None,
                               SumAmount(BonusesToReset(bonuses, a)), NoCalc),
                       actor)
    /\ UNCHANGED <<products, batches, sales, stockLog, nextBonusId,
                   priceHistory, now, sess>>

(* ------------------------------ pricing -------------------------------- *)
(* A price setter that refuses a price that is not positive.                *)
PriceRejectedUnlessPositive(P, product_id, retail_price) ==
    IF product_id \notin DOMAIN P THEN "not_found"
    ELSE IF retail_price <= 0 THEN "invalid_price"
    ELSE ""

(* product = db.get(Product, product_id); if not product: raise            *)
PriceRejected(P, product_id, retail_price) ==
    IF product_id \notin DOMAIN P THEN "not_found" ELSE ""

(* A history that is written on every change, also the first.               *)
HistoryRowsAlways(P, product_id, retail_price, changed_by_id) ==
    << [product_id |-> product_id, old_price |-> OrZero(P[product_id].retail_price),
        new_price |-> retail_price, changed_by_id |-> changed_by_id] >>

(* if product.retail_price: db.add(PriceHistory(...))                      *)
HistoryRows(P, product_id, retail_price, changed_by_id) ==
    IF Truthy(P[product_id].retail_price)
    THEN << [product_id |-> product_id, old_price |-> P[product_id].retail_price[1],
             new_price |-> retail_price, changed_by_id |-> changed_by_id] >>
    ELSE << >>

(* set_retail_price: lookup, history row, overwrite, commit, log_action.   *)
SetRetailPrice(product_id, retail_price, changed_by_id) ==
    /\ AllIdle
    /\ IF PriceRejected(products, product_id, retail_price) # ""
       THEN /\ last' = [ByActor(Outcome("set_retail_price", FALSE,
                                        PriceRejected(products, product_id,
                                                      retail_price),
                                        None, product_id, 0, NoCalc),
                                changed_by_id)
                           EXCEPT !.args = PriceArgs({product_id},
                                                     Some(retail_price), NULL)]
            /\ UNCHANGED tables
       ELSE LET rows == HistoryRows(products, product_id, retail_price,
                                    changed_by_id)
            IN /\ actionLog < MaxLog
               /\ Len(priceHistory) + Len(rows) <= MaxHistory
               /\ priceHistory' = priceHistory \o rows
               /\ products' = [products EXCEPT
                                  ![product_id].retail_price = Some(retail_price)]
               /\ actionLog' = LogAction(actionLog)
               /\ last' = [ByActor(Outcome("set_retail_price", TRUE, "", None,
                                           product_id, 0, NoCalc), changed_by_id)
                              EXCEPT !.args = PriceArgs({product_id},
                                                        Some(retail_price), NULL)]
               /\ UNCHANGED <<batches, sales, stockLog, bonuses, nextBonusId>>
    /\ UNCHANGED <<now, sess>>

(* A markup that leaves the base out of the new price.                      *)
MarkupPriceWithoutBase(base, increase_percent) == (base * increase_percent) \div 100

(* round(base * (1 + increase_percent / 100), 2).  The cost prices are     *)
(* whole hundreds of roubles, so the result is a whole number of roubles   *)
(* and the rounding to two decimals leaves it as it is.                    *)
MarkupPrice(base, increase_percent) == (base * (100 + increase_percent)) \div 100

(* A bulk update that marks up the current retail price.                    *)
UpdatedPriceOnRetail(product, new_price, increase_percent) ==
    IF increase_percent # NULL
    THEN Some(MarkupPrice(OrZero(product.retail_price), increase_percent[1]))
    ELSE IF new_price # NULL THEN Some(new_price[1])
    ELSE NULL

(* bulk_update's rule, lines 82-89: the markup on the cost price, else the *)
(* fixed price, else the product is skipped (NULL).                        *)
UpdatedPrice(product, new_price, increase_percent) ==
    IF increase_percent # NULL
    THEN Some(MarkupPrice(OrZero(Some(product.cost_price)), increase_percent[1]))
    ELSE IF new_price # NULL THEN Some(new_price[1])
    ELSE NULL

(* A preview that marks up the current retail price.                        *)
PreviewPriceOnRetail(product, new_price, increase_percent) ==
    IF increase_percent # NULL
    THEN Some(MarkupPrice(OrZero(product.retail_price), increase_percent[1]))
    ELSE IF new_price # NULL THEN Some(new_price[1])
    ELSE NULL

(* preview's rule, lines 137-142; new_price arrives as a float, which      *)
(* float() returns as it is.                                                *)
PreviewPrice(product, new_price, increase_percent) ==
    IF increase_percent # NULL
    THEN Some(MarkupPrice(OrZero(Some(product.cost_price)), increase_percent[1]))
    ELSE IF new_price # NULL THEN Some(new_price[1])
    ELSE NULL

(* if not product_ids: return; Product.id.in_(product_ids)                 *)
FoundProducts(P, ids) == IF ids = {} THEN {} ELSE ids \cap DOMAIN P

Lowest(ids) == CHOOSE p \in ids : \A q \in ids : p <= q

(* A bulk update that writes a PriceHistory row for every product, priced   *)
(* before or not.                                                           *)
RECURSIVE BulkHistoryRowsAlways(_, _, _, _, _)
BulkHistoryRowsAlways(P, ids, new_price, increase_percent, changed_by_id) ==
    IF ids = {} THEN << >>
    ELSE LET p == Lowest(ids)
         IN << [product_id |-> p, old_price |-> OrZero(P[p].retail_price),
                new_price |-> UpdatedPrice(P[p], new_price,
                                           increase_percent)[1],
                changed_by_id |-> changed_by_id] >>
            \o BulkHistoryRowsAlways(P, ids \ {p}, new_price,
                                     increase_percent, changed_by_id)

(* The PriceHistory rows of a bulk update, one per product that had a      *)
(* price, in the order the query yields the products (by primary key).     *)
RECURSIVE BulkHistoryRows(_, _, _, _, _)
BulkHistoryRows(P, ids, new_price, increase_percent, changed_by_id) ==
    IF ids = {} THEN << >>
    ELSE LET p == Lowest(ids)
             old_price == OrZero(P[p].retail_price)
             rest == BulkHistoryRows(P, ids \ {p}, new_price, increase_percent,
                                     changed_by_id)
         IN IF old_price # 0
            THEN << [product_id |-> p, old_price |-> old_price,
                     new_price |-> UpdatedPrice(P[p], new_price,
                                                increase_percent)[1],
                     changed_by_id |-> changed_by_id] >> \o rest
            ELSE rest

(* bulk_update_retail_price_by_ids; it returns the number of products it   *)
(* wrote.                                                                   *)
BulkUpdate(ids, new_price, increase_percent, changed_by_id) ==
    /\ AllIdle
    /\ LET todo == IF increase_percent = NULL /\ new_price = NULL THEN {}
                   ELSE FoundProducts(products, ids)
           rows == BulkHistoryRows(products, todo, new_price, increase_percent,
                                   changed_by_id)
           changed == Cardinality(todo)
       IN /\ changed > 0 => actionLog < MaxLog
          /\ Len(priceHistory) + Len(rows) <= MaxHistory
          /\ products' = [p \in DOMAIN products |->
                            IF p \in todo
                            THEN [products[p] EXCEPT !.retail_price =
                                     UpdatedPrice(products[p], new_price,
                                                  increase_percent)]
                            ELSE products[p]]
          /\ priceHistory' = priceHistory \o rows
          /\ actionLog' = IF changed > 0 /\ changed_by_id # None
                          THEN LogAction(actionLog) ELSE actionLog
          /\ last' = [ByActor(Outcome("bulk_update", TRUE, "", None, None,
                                      changed, NoCalc), changed_by_id)
                         EXCEPT !.args = PriceArgs(ids, new_price,
                                                   increase_percent)]
    /\ UNCHANGED <<batches, sales, stockLog, bonuses, nextBonusId, now, sess>>

(* A preview that ignores its limit.                                        *)
LimitedIgnoringLimit(ids, limit) == ids

(* .limit(limit): the first rows of the query.                             *)
RECURSIVE Limited(_, _)
Limited(ids, limit) ==
    IF ids = {} \/ limit <= 0 THEN {}
    ELSE {Lowest(ids)} \cup Limited(ids \ {Lowest(ids)}, limit - 1)

(* preview_bulk_price_update: the list of {id, old, new} it returns (the   *)
(* name, size and percent delta of each entry are left out).               *)
PreviewRows(P, ids, new_price, increase_percent, limit) ==
    IF increase_percent = NULL /\ new_price = NULL THEN {}
    ELSE {[id |-> p, old |-> OrZero(P[p].retail_price),
           new |-> PreviewPrice(P[p], new_price, increase_percent)[1]] :
          p \in Limited(FoundProducts(P, ids), limit)}

PreviewBulk(ids, new_price, increase_percent, limit) ==
    /\ AllIdle
    /\ last' = [Outcome("preview", TRUE, "", None, None, limit, NoCalc)
                   EXCEPT !.args = PriceArgs(ids, new_price, increase_percent),
                          !.preview = PreviewRows(products, ids, new_price,
                                                  increase_percent, limit)]
    /\ UNCHANGED <<tables, now, sess>>

(* ------------------------------ ingestion ------------------------------ *)
(* process_warehouse_selection: create_batch_from_excel on the uploaded    *)
(* file, its commit of the Batch, the Products and the StockLog rows, and  *)
(* log_action; on an exception the rollback, and the error goes to the     *)
(* chat.  last.id is the id of the Batch, last.stock the number of         *)
(* products the call returned.                                              *)
CreateBatch(file, warehouse, created_by_id, t) ==
    /\ AllIdle
    /\ Len(batches) < MaxBatches
    /\ \E unique \in BatchNumberUnique :
          \E result \in {CreateBatchFromExcel(
                             [batches |-> batches, products |-> products,
                              stockLog |-> stockLog],
                             file, warehouse, created_by_id, t, unique)} :
             /\ result.ok => actionLog < MaxLog
             /\ batches' = result.db.batches
             /\ products' = result.db.products
             /\ stockLog' = result.db.stockLog
             /\ actionLog' = IF result.ok THEN LogAction(actionLog) ELSE actionLog
             /\ last' = [ByActor(Outcome("create_batch", result.ok, result.err,
                                         IF result.ok THEN result.batch[1].id
                                         ELSE None,
                                         None, Len(result.products), NoCalc),
                                 created_by_id)
                            EXCEPT !.args = [file |-> file,
                                             warehouse |-> warehouse],
                                   !.errors = result.errors]
    /\ UNCHANGED <<sales, bonuses, nextBonusId, priceHistory, now, sess>>

(* -------------------------- get_product_info --------------------------- *)
GetProductInfo(p) ==
    /\ AllIdle
    /\ IF p \notin DOMAIN products
       THEN last' = Outcome("get_product_info", FALSE, "not_found", None, p, 0, NoCalc)
       ELSE last' = Outcome("get_product_info", TRUE, "", None, p,
                            CurrentStock(products, sales, p), NoCalc)
    /\ UNCHANGED <<tables, now, sess>>

(* ------------------------------- get_stock ----------------------------- *)
(* "if warehouse:", "if category:", "if size:": an argument that is None   *)
(* or '' does not filter.                                                   *)
Given(arg) == arg # NULL /\ arg[1] # ""

(* Product.name.contains(category): name LIKE '%category%', which SQLite   *)
(* compares without regard to the case of ASCII letters; on the names and  *)
(* categories of the model.                                                 *)
Contains(name, category) ==
    <<name, category>> \in {<<"skates", "skates">>, <<"skates", "SKATE">>,
                            <<"stick", "stick">>}

(* A listing that keeps the products that are sold out.                     *)
InStockOrSoldOut(current_stock) == current_stock >= 0

(* if current_stock > 0                                                    *)
InStock(current_stock) == current_stock > 0

(* The rows get_stock returns: Product joined with its Batch and with the  *)
(* per-product sum of the non-returned sales (coalesce(..., 0)), filtered  *)
(* by the arguments that are given, then by the stock in Python.           *)
GetStockRows(B, P, S, warehouse, category, size) ==
    {[id |-> q, ean |-> P[q].ean, name |-> P[q].name, size |-> P[q].size,
      stock |-> CurrentStock(P, S, q), cost_price |-> P[q].cost_price,
      retail_price |-> P[q].retail_price,
      warehouse |-> B[P[q].batch_id].warehouse] :
        q \in {p \in DOMAIN P :
                 /\ Given(warehouse) => B[P[p].batch_id].warehouse = warehouse[1]
                 /\ Given(category) => Contains(P[p].name, category[1])
                 /\ Given(size) => P[p].size = size[1]
                 /\ InStock(CurrentStock(P, S, p))}}

GetStock(warehouse, category, size) ==
    /\ AllIdle
    /\ last' = [Outcome("get_stock", TRUE, "", None, None, 0, NoCalc) EXCEPT
                   !.args = [warehouse |-> warehouse, category |-> category,
                             size |-> size],
                   !.listing = GetStockRows(batches, products, sales,
                                            warehouse, category, size)]
    /\ UNCHANGED <<tables, now, sess>>

(* The calendar moves to the next month.                                    *)
Tick ==
    /\ now + 1 \in Months
    /\ now' = now + 1
    /\ UNCHANGED <<tables, last, sess>>

(* ------------------- create_sale, statement by statement --------------- *)
(* Each call runs in its own Session (SessionLocal) on one SQLite file.    *)
(* A SELECT outside a transaction reads the committed rows; the first      *)
(* INSERT of a session (the flush) takes the database's write lock, which  *)
(* one session holds at a time until its commit.                           *)

(* A database that lets any number of sessions write at once.               *)
CanWriteAlways(s) == TRUE

(* The write lock is free, or the session holds it already.                 *)
CanWrite(s) == writer = None \/ writer = s

(* product lookup and stock check: lines 269-285                           *)
SaleCheck(s, p, a, sale_price, quantity) ==
    /\ pc[s] = "idle"
    /\ IF p \notin DOMAIN products
       THEN /\ last' = Outcome("create_sale", FALSE, "not_found", None, p, 0, NoCalc)
            /\ UNCHANGED <<pc, loc>>
       ELSE LET current_stock == CurrentStock(products, sales, p)
            IN IF InsufficientStock(current_stock, quantity)
               THEN /\ last' = Outcome("create_sale", FALSE, "insufficient", None, p,
                                       current_stock, NoCalc)
                    /\ UNCHANGED <<pc, loc>>
               ELSE /\ Len(sales) + Cardinality({x \in Sessions : pc[x] # "idle"})
                          < MaxSales
                    /\ pc' = [pc EXCEPT ![s] = "checked"]
                    /\ loc' = [loc EXCEPT ![s] =
                                  [IdleLoc EXCEPT !.p = p, !.a = a, !.price = sale_price,
                                                  !.q = quantity,
                                                  !.stock = current_stock]]
                    /\ UNCHANGED last
    /\ UNCHANGED <<tables, now, writer>>

(* db.add(sale); db.flush(): lines 293-303                                 *)
SaleFlush(s) ==
    /\ pc[s] = "checked"
    /\ CanWrite(s)
    /\ writer' = s
    /\ pc' = [pc EXCEPT ![s] = "flushed"]
    /\ loc' = [loc EXCEPT ![s].row = SaleRow(products, loc[s].p, loc[s].a,
                                             loc[s].price, loc[s].q, now),
                          ![s].id = Len(sales) + 1]
    /\ UNCHANGED <<tables, now, last>>

(* The flush finds the database locked for longer than the driver waits:   *)
(* the call raises and nothing of it is persisted.                         *)
SaleFlushBusy(s) ==
    /\ pc[s] = "checked"
    /\ ~CanWrite(s)
    /\ pc' = [pc EXCEPT ![s] = "idle"]
    /\ loc' = [loc EXCEPT ![s] = IdleLoc]
    /\ last' = Outcome("create_sale", FALSE, "locked", None, loc[s].p,
                       loc[s].stock, NoCalc)
    /\ UNCHANGED <<tables, now, writer>>

(* calculate_bonus inside the session's transaction: lines 316, 343-366    *)
SaleBonus(s) ==
    /\ pc[s] = "flushed"
    /\ pc' = [pc EXCEPT ![s] = "bonus"]
    /\ loc' = [loc EXCEPT ![s].calc =
                  CalculateBonus(VisibleSales(sales, loc[s].row), loc[s].a,
                                 loc[s].row.margin, now)]
    /\ UNCHANGED <<tables, now, last, writer>>

(* A session whose close leaves the flushed Sale row in the table.          *)
SaleAbortKeepsFlushed(s) ==
    /\ pc[s] \in {"flushed", "bonus"}
    /\ sales' = Append(sales, loc[s].row)
    /\ writer' = None
    /\ pc' = [pc EXCEPT ![s] = "idle"]
    /\ loc' = [loc EXCEPT ![s] = IdleLoc]
    /\ last' = Outcome("create_sale", FALSE, "error", None, loc[s].p,
                       loc[s].stock, NoCalc)
    /\ UNCHANGED <<products, batches, stockLog, bonuses, nextBonusId,
                   actionLog, priceHistory, now>>

(* A statement between the flush and the end of db.commit() raises (a      *)
(* query of calculate_bonus, the commit itself): the exception leaves      *)
(* create_sale, the handler's "with get_db_session()" closes the Session,  *)
(* which rolls the open transaction back.                                  *)
SaleAbort(s) ==
    /\ pc[s] \in {"flushed", "bonus"}
    /\ writer' = None
    /\ pc' = [pc EXCEPT ![s] = "idle"]
    /\ loc' = [loc EXCEPT ![s] = IdleLoc]
    /\ last' = Outcome("create_sale", FALSE, "error", None, loc[s].p,
                       loc[s].stock, NoCalc)
    /\ UNCHANGED <<tables, now>>

(* db.add(stock_log); db.add(bonus); db.commit(): lines 306-327            *)
SaleCommit(s) ==
    /\ pc[s] = "bonus"
    /\ PersistSale(loc[s].row, loc[s].calc)
    /\ writer' = None
    /\ pc' = [pc EXCEPT ![s] = "committed"]
    /\ UNCHANGED <<products, batches, actionLog, priceHistory, now, last, loc>>

(* log_action and return: lines 330-336                                    *)
SaleLog(s) ==
    /\ pc[s] = "committed"
    /\ CanWrite(s)
    /\ actionLog' = LogAction(actionLog)
    /\ last' = Outcome("create_sale", TRUE, "", loc[s].id, loc[s].p, loc[s].stock,
                       loc[s].calc)
    /\ pc' = [pc EXCEPT ![s] = "idle"]
    /\ loc' = [loc EXCEPT ![s] = IdleLoc]
    /\ UNCHANGED <<products, batches, sales, stockLog, bonuses, nextBonusId,
                   priceHistory, now, writer>>

(* log_action finds the database locked for longer than the driver waits:  *)
(* create_sale raises after its own commit.                                *)
SaleLogBusy(s) ==
    /\ pc[s] = "committed"
    /\ ~CanWrite(s)
    /\ last' = Outcome("create_sale", FALSE, "log_locked", loc[s].id, loc[s].p,
                       loc[s].stock, loc[s].calc)
    /\ pc' = [pc EXCEPT ![s] = "idle"]
    /\ loc' = [loc EXCEPT ![s] = IdleLoc]
    /\ UNCHANGED <<tables, now, writer>>

(* ------------------- return_sale, statement by statement --------------- *)
(* The Session has autoflush off: the changes of lines 533-550 stay in the  *)
(* Session until db.commit() writes them in one transaction; the SELECTs    *)
(* before it read the committed rows.                                       *)

(* The ids of a set of Bonus rows.                                          *)
IdsOf(B) == {b.id : b \in B}

(* sale = db.get(Sale, sale_id) and the two guards: lines 525-530; the     *)
(* Session keeps the Sale as loaded.                                        *)
ReturnRead(s, sale_id, admin) ==
    /\ pc[s] = "idle"
    /\ IF ReturnRejected(sales, sale_id) # ""
       THEN /\ last' = ByActor(Outcome("return_sale", FALSE,
                                       ReturnRejected(sales, sale_id),
                                       sale_id, None, 0, NoCalc), admin)
            /\ UNCHANGED <<pc, loc>>
       ELSE /\ actionLog + Cardinality({x \in Sessions : pc[x] # "idle"}) < MaxLog
            /\ pc' = [pc EXCEPT ![s] = "returning"]
            /\ loc' = [loc EXCEPT ![s] =
                          [IdleLoc EXCEPT !.id = sale_id, !.row = sales[sale_id],
                                          !.actor = admin]]
            /\ UNCHANGED last
    /\ UNCHANGED <<tables, now, writer>>

(* bonus = db.query(Bonus).filter_by(sale_id=sale_id).first();             *)
(* if bonus and not bonus.is_paid: db.delete(bonus): lines 548-550         *)
ReturnBonus(s) ==
    /\ pc[s] = "returning"
    /\ pc' = [pc EXCEPT ![s] = "bonus_read"]
    /\ loc' = [loc EXCEPT ![s].rows = BonusToDelete(bonuses, loc[s].id)]
    /\ UNCHANGED <<tables, now, last, writer>>

(* db.commit() flushes UPDATE sales ... WHERE id, INSERT stock_logs and    *)
(* DELETE bonuses ... WHERE id (a DELETE that matches no row only warns),  *)
(* then log_action and return: lines 552-561                               *)
ReturnCommit(s) ==
    /\ pc[s] = "bonus_read"
    /\ sales' = MarkReturned(sales, loc[s].id)
    /\ stockLog' = Append(stockLog, ReturnRow(loc[s].row, loc[s].id))
    /\ bonuses' = {b \in bonuses : b.id \notin IdsOf(loc[s].rows)}
    /\ actionLog' = LogAction(actionLog)
    /\ last' = ByActor(Outcome("return_sale", TRUE, "", loc[s].id, None, 0,
                                NoCalc), loc[s].actor)
    /\ pc' = [pc EXCEPT ![s] = "idle"]
    /\ loc' = [loc EXCEPT ![s] = IdleLoc]
    /\ UNCHANGED <<products, batches, nextBonusId, priceHistory, now, writer>>

(* ------------------- pay_bonuses, statement by statement --------------- *)
(* unpaid_bonuses = db.query(Bonus).filter(...).all(); total_amount; the   *)
(* loop sets is_paid on the loaded objects: lines 440-451                  *)
PayRead(s, a, admin) ==
    /\ pc[s] = "idle"
    /\ actionLog + Cardinality({x \in Sessions : pc[x] # "idle"}) < MaxLog
    /\ pc' = [pc EXCEPT ![s] = "paying"]
    /\ loc' = [loc EXCEPT ![s] =
                  [IdleLoc EXCEPT !.a = a, !.rows = UnpaidBonuses(bonuses, a),
                                  !.actor = admin]]
    /\ UNCHANGED <<tables, now, last, writer>>

(* db.commit() flushes UPDATE bonuses SET is_paid ... WHERE id for each    *)
(* loaded row; a row that is gone makes the flush raise (the UPDATE        *)
(* matches no row) and the Session rolls back; otherwise log_action and    *)
(* return total_amount: lines 453-462                                      *)
PayCommit(s) ==
    /\ pc[s] = "paying"
    /\ IF IdsOf(loc[s].rows) \subseteq IdsOf(bonuses)
       THEN /\ bonuses' = {IF b.id \in IdsOf(loc[s].rows)
                           THEN [b EXCEPT !.is_paid = TRUE, !.paid_at = now]
                           ELSE b : b \in bonuses}
            /\ actionLog' = LogAction(actionLog)
            /\ last' = ByActor(Outcome("pay_bonuses", TRUE, "", loc[s].a, None,
                                        SumAmount(loc[s].rows), NoCalc),
                               loc[s].actor)
       ELSE /\ last' = ByActor(Outcome("pay_bonuses", FALSE, "stale", loc[s].a,
                                        None, 0, NoCalc), loc[s].actor)
            /\ UNCHANGED <<bonuses, actionLog>>
    /\ pc' = [pc EXCEPT ![s] = "idle"]
    /\ loc' = [loc EXCEPT ![s] = IdleLoc]
    /\ UNCHANGED <<products, batches, sales, stockLog, nextBonusId,
                   priceHistory, now, writer>>

(* ---------------------------- specifications --------------------------- *)
(* Calls one after another, as the bot's event loop runs its handlers.     *)
(* SpecLedger: the stock side, every product and quantity, one price.      *)
LedgerPrices == {6000}
LedgerAgents == {1}

NextLedger ==
    \/ \E p \in InputProductIds, a \in LedgerAgents, sp \in LedgerPrices,
          q \in Quantities : CreateSale(p, a, sp, q)
    \/ \E id \in 1 .. MaxSales + 1, admin \in AdminIds : ReturnSale(id, admin)
    \/ \E a \in LedgerAgents, admin \in AdminIds : PayBonuses(a, admin)
    \/ \E p \in InputProductIds : GetProductInfo(p)

SpecLedger == Init /\ [][NextLedger]_vars

(* SpecBonus: the bonus side, every price, agent and month, one unit of    *)
(* product 1 or 2 per sale.                                                 *)
BonusQuantities == {1}

NextBonus ==
    \/ \E p \in ProductIds, a \in AgentIds, sp \in Prices, q \in BonusQuantities :
          CreateSale(p, a, sp, q)
    \/ \E id \in 1 .. MaxSales, admin \in AdminIds : ReturnSale(id, admin)
    \/ Tick

SpecBonus == Init /\ [][NextBonus]_vars

(* SpecStock: the two read operations between sales and returns of both    *)
(* products; get_stock without filters, with an empty one, and with a      *)
(* warehouse, a category (in capitals) and a size.                         *)
NextStock ==
    \/ \E p \in ProductIds, a \in LedgerAgents, sp \in LedgerPrices,
          q \in Quantities : CreateSale(p, a, sp, q)
    \/ \E id \in 1 .. MaxSales, admin \in AdminIds : ReturnSale(id, admin)
    \/ \E p \in InputProductIds : GetProductInfo(p)
    \/ \E warehouse \in {NULL, Some(""), Some("w2")},
          category \in {NULL, Some("SKATE")}, size \in {NULL, Some("L")} :
          GetStock(warehouse, category, size)

SpecStock == Init /\ [][NextStock]_vars

(* SpecMargin: sales of both products at a price above cost, at 0 and      *)
(* below 0, of one and two units, and their returns.                       *)
NextMargin ==
    \/ \E p \in ProductIds, a \in LedgerAgents, sp \in {-1500, 0, 1500},
          q \in {1, 2} : CreateSale(p, a, sp, q)
    \/ \E id \in 1 .. MaxSales, admin \in AdminIds : ReturnSale(id, admin)

SpecMargin == Init /\ [][NextMargin]_vars

(* SpecTier: two agents sell product 1 at a small and at a large margin,   *)
(* their sales are returned and their bonuses paid.                        *)
NextTier ==
    \/ \E a \in AgentIds, sp \in {6000, 50000}, q \in BonusQuantities :
          CreateSale(1, a, sp, q)
    \/ \E id \in 1 .. MaxSales, admin \in AdminIds : ReturnSale(id, admin)
    \/ \E a \in AgentIds, admin \in AdminIds : PayBonuses(a, admin)

SpecTier == Init /\ [][NextTier]_vars

(* SpecConc: create_sale calls of several sessions interleaved statement   *)
(* by statement.                                                            *)
ConcPrices == {6000, 50000}

NextConc ==
    \/ \E s \in Sessions, p \in ProductIds, a \in LedgerAgents, sp \in ConcPrices,
          q \in BonusQuantities : SaleCheck(s, p, a, sp, q)
    \/ \E s \in Sessions : SaleFlush(s)
    \/ \E s \in Sessions : SaleFlushBusy(s)
    \/ \E s \in Sessions : SaleBonus(s)
    \/ \E s \in Sessions : SaleAbort(s)
    \/ \E s \in Sessions : SaleCommit(s)
    \/ \E s \in Sessions : SaleLog(s)
    \/ \E s \in Sessions : SaleLogBusy(s)
    \/ \E id \in 1 .. MaxSales, admin \in AdminIds : ReturnSale(id, admin)

SpecConc == Init /\ [][NextConc]_vars

(* SpecRace: sales of product 1 made one at a time, then return_sale and   *)
(* pay_bonuses calls of several sessions interleaved statement by          *)
(* statement.                                                               *)
NextRace ==
    \/ \E sp \in {6000, 50000} : CreateSale(1, 1, sp, 1)
    \/ \E s \in Sessions, id \in 1 .. MaxSales, admin \in AdminIds :
          ReturnRead(s, id, admin)
    \/ \E s \in Sessions : ReturnBonus(s)
    \/ \E s \in Sessions : ReturnCommit(s)
    \/ \E s \in Sessions, admin \in AdminIds : PayRead(s, 1, admin)
    \/ \E s \in Sessions : PayCommit(s)

SpecRace == Init /\ [][NextRace]_vars

(* SpecPay: the life of a Bonus: sales of product 1 at, below and above    *)
(* cost, returns, payouts and resets by any user.                          *)
PayProducts == {1}
PayPrices == {0, 1000, 6000}

NextPay ==
    \/ \E p \in PayProducts, a \in AgentIds, sp \in PayPrices,
          q \in BonusQuantities : CreateSale(p, a, sp, q)
    \/ \E id \in 1 .. MaxSales, actor \in ActorIds : ReturnSale(id, actor)
    \/ \E a \in AgentIds, actor \in ActorIds : PayBonuses(a, actor)
    \/ \E a \in AgentIds, actor \in ActorIds : ResetBonuses(a, actor)

SpecPay == Init /\ [][NextPay]_vars

(* SpecPrice: the pricing operations of an admin on the two products and  *)
(* on an id no product has.                                                 *)
RetailPrices == {0, 1500, 2000}
BulkIdLists == {{}, {1}, {1, 2}, {1, 2, 3}}
BulkPrices == {NULL, Some(1500)}
BulkPercents == {NULL, Some(10)}
Limits == {1, 50}

NextPrice ==
    \/ \E p \in InputProductIds, price \in RetailPrices, actor \in AdminIds :
          SetRetailPrice(p, price, actor)
    \/ \E ids \in BulkIdLists, np \in BulkPrices, inc \in BulkPercents,
          actor \in AdminIds : BulkUpdate(ids, np, inc, actor)
    \/ \E ids \in BulkIdLists, np \in BulkPrices, inc \in BulkPercents,
          limit \in Limits : PreviewBulk(ids, np, inc, limit)

SpecPrice == Init /\ [][NextPrice]_vars

(* SpecIngest: uploads of an admin into an empty database.  The files:     *)
(* one without rows and one of an empty row, one without the EAN column,   *)
(* files of valid rows, a file with the EAN A three times (once as " A "   *)
(* and with other data), files of rejected rows only, files that mix       *)
(* rejected and valid rows, among them a rejected row and a valid row with *)
(* the same EAN, and a row whose cells are empty, zero or unknown.         *)
RowA2 == FileRow(Some(" A "), Some(1), Some(50))
RowNoEan == FileRow(NULL, Some(1), Some(10))
RowBlankEan == FileRow(Some(" "), Some(1), Some(10))
RowNegQtyA == FileRow(Some("A"), Some(-1), Some(10))
RowNegQtyC == FileRow(Some("C"), Some(-1), Some(10))
RowNegPrice == FileRow(Some("C"), Some(1), Some(-1))
RowCoerced ==
    [ean |-> Some("C"), name |-> NULL, size |-> NULL, fit |-> Some("slim"),
     weight |-> Some(0),
     quantity |-> NULL, price_eur |-> Some(100), exchange_rate |-> Some(0),
     coefficient |-> Some(0), logistics_per_kg |-> Some(-5)]
RowEmpty == [f \in DOMAIN RowA |-> NULL]

Files ==
    {SheetOf(<< >>), SheetOf(<<RowEmpty>>),
     [columns |-> EXCEL_TEMPLATE_COLUMNS \ {"EAN"}, rows |-> <<RowA>>],
     SheetOf(<<RowA>>), SheetOf(<<RowA, RowB>>),
     SheetOf(<<RowA, RowA2, RowA>>),
     SheetOf(<<RowNoEan, RowBlankEan>>), SheetOf(<<RowNegQtyC, RowNegPrice>>),
     SheetOf(<<RowNegQtyC, RowB, RowNoEan>>),
     SheetOf(<<RowNegQtyA, RowA>>), SheetOf(<<RowNegQtyA, RowA, RowB>>),
     SheetOf(<<RowEmpty, RowCoerced>>)}
Warehouses == {"w1"}
Instants == {0, 1, 2}

InitEmpty ==
    /\ products = EmptyDb.products
    /\ batches = EmptyDb.batches
    /\ stockLog = EmptyDb.stockLog
    /\ sales = << >>
    /\ bonuses = {}
    /\ nextBonusId = 1
    /\ actionLog = 0
    /\ priceHistory = << >>
    /\ now = 1
    /\ last = Outcome("none", TRUE, "", None, None, 0, NoCalc)
    /\ pc = [s \in Sessions |-> "idle"]
    /\ loc = [s \in Sessions |-> IdleLoc]
    /\ writer = None

NextIngest ==
    \E file \in Files, warehouse \in Warehouses, actor \in AdminIds,
       t \in Instants : CreateBatch(file, warehouse, actor, t)

SpecIngest == InitEmpty /\ [][NextIngest]_vars

(* SpecFrame: every operation that writes, and the preview, on the two     *)
(* products and on the products of a later upload: a file that brings the  *)
(* EAN of product 1 again together with a new one, and a file of rejected  *)
(* rows.                                                                     *)
FrameProducts == {1}
FramePriced == {1}
FrameAgents == {1}
FramePrices == {6000}
FrameRetailPrices == {1500}
FrameIdLists == {{1, 2, 3}}
FramePercents == {Some(10)}
FrameLimits == {50}
FrameFiles == {SheetOf(<<RowA, RowCoerced>>), SheetOf(<<RowNegQtyC, RowNegPrice>>)}
FrameInstants == {4}

NextFrame ==
    \/ \E p \in FramePriced, price \in FrameRetailPrices, actor \in AdminIds :
          SetRetailPrice(p, price, actor)
    \/ \E ids \in FrameIdLists, inc \in FramePercents, actor \in AdminIds :
          BulkUpdate(ids, NULL, inc, actor)
    \/ \E ids \in FrameIdLists, inc \in FramePercents, limit \in FrameLimits :
          PreviewBulk(ids, NULL, inc, limit)
    \/ \E p \in FrameProducts, a \in FrameAgents, sp \in FramePrices,
          q \in BonusQuantities : CreateSale(p, a, sp, q)
    \/ \E id \in 1 .. MaxSales, admin \in AdminIds : ReturnSale(id, admin)
    \/ \E a \in FrameAgents, admin \in AdminIds : PayBonuses(a, admin)
    \/ \E file \in FrameFiles, warehouse \in Warehouses, actor \in AdminIds,
          t \in FrameInstants : CreateBatch(file, warehouse, actor, t)

SpecFrame == Init /\ [][NextFrame]_vars

(* ------------------------------ properties ----------------------------- *)
(* The ids of the product's Sale rows whose is_returned is false, and the  *)
(* sum of the quantities of a set of Sale rows.                            *)
NonReturnedOf(p) ==
    {i \in DOMAIN sales : sales[i].product_id = p /\ ~sales[i].is_returned}

RECURSIVE QtySum(_)
QtySum(I) ==
    IF I = {} THEN 0
    ELSE LET i == CHOOSE x \in I : TRUE IN sales[i].quantity + QtySum(I \ {i})

(* C1: the stock that get_product_info reports and the stock that          *)
(* create_sale's check uses equal the product's received quantity minus    *)
(* the quantities of its Sales that are not returned, in every state       *)
(* reached by create_sale and return_sale calls.                           *)
StockIsReceivedMinusSold ==
    /\ \A p \in DOMAIN products :
          CurrentStock(products, sales, p)
              = products[p].quantity - QtySum(NonReturnedOf(p))
    /\ (last.op = "get_product_info" /\ last.ok)
          => last.stock = products[last.product].quantity
                            - QtySum(NonReturnedOf(last.product))
    /\ (last.op = "create_sale" /\ last.err = "insufficient")
          => last.stock = products[last.product].quantity
                            - QtySum(NonReturnedOf(last.product))
    /\ (last.op = "create_sale" /\ last.ok)
          => last.stock = products[last.product].quantity
                            - QtySum(NonReturnedOf(last.product) \ {last.id})

(* get_product_info has reported the stock of a product that has a         *)
(* returned sale and a sale that is not returned.                          *)
StockReportedWitness ==
    /\ last.op = "get_product_info" /\ last.ok
    /\ \E i, j \in DOMAIN sales :
          /\ sales[i].product_id = last.product /\ sales[i].is_returned
          /\ sales[j].product_id = last.product /\ ~sales[j].is_returned

(* C2: stock never goes negative: after any sequence of create_sale and    *)
(* return_sale calls every product's current stock is >= 0.                *)
StockNeverNegative ==
    \A p \in DOMAIN products : CurrentStock(products, sales, p) >= 0

(* C2, the part about the failing call: a create_sale reports insufficient *)
(* stock exactly when its quantity exceeds the current stock, and a call   *)
(* that failed changed no table.                                           *)
OversizedSaleFails ==
    [][/\ (last'.op = "create_sale" /\ ~last'.ok) => tables' = tables
       /\ (last'.op = "create_sale" /\ last'.ok /\ Len(sales') = Len(sales) + 1)
             => sales'[Len(sales')].quantity
                   <= products[last'.product].quantity
                        - QtySum(NonReturnedOf(last'.product))]_vars

(* C3: under any interleaving of concurrent create_sale calls the sum of   *)
(* the quantities of the committed, non-returned sales of a product never  *)
(* exceeds its received quantity.                                          *)
NoJointOversell ==
    \A p \in DOMAIN products : QtySum(NonReturnedOf(p)) <= products[p].quantity

(* The agent's Sale rows of month m on that are not returned, and the sum  *)
(* of the margins of a set of Sale rows.                                   *)
MonthSalesOf(a, m) ==
    {i \in DOMAIN sales :
        sales[i].agent_id = a /\ sales[i].sale_date >= m /\ ~sales[i].is_returned}

RECURSIVE MarginSum(_)
MarginSum(I) ==
    IF I = {} THEN 0
    ELSE LET i == CHOOSE x \in I : TRUE IN sales[i].margin + MarginSum(I \ {i})

(* The tiers whose half-open range [min_amount, max_amount) holds total.   *)
TiersHolding(total) ==
    {r \in RuleIds : /\ BonusRules[r].is_active
                     /\ BonusRules[r].min_amount <= total
                     /\ total < BonusRules[r].max_amount}

(* C4: when one agent has two create_sale calls in flight, the tier lookup *)
(* of a call reads a monthly total that holds every sale committed so far: *)
(* the committed sales of the agent and the call's own.                    *)
TierLookupSeesCommittedSales ==
    \A s \in Sessions :
        pc[s] = "bonus"
           => loc[s].calc.month_sales
                 = MarginSum(MonthSalesOf(loc[s].a, now)) + loc[s].row.margin

(* A call is at its tier lookup after another call of the same agent, on   *)
(* the same product, committed a sale that the call's stock check had not  *)
(* seen.                                                                    *)
TierLookupAfterRivalWitness ==
    \E s \in Sessions : \E i \in DOMAIN sales :
        /\ pc[s] = "bonus"
        /\ sales[i].agent_id = loc[s].a
        /\ sales[i].product_id = loc[s].p
        /\ ~sales[i].is_returned
        /\ loc[s].stock = products[loc[s].p].quantity
                            - QtySum(NonReturnedOf(loc[s].p) \ {i})

(* The stock of product p as the claims define it, in the Sale table S.    *)
RECURSIVE QtySumIn(_, _)
QtySumIn(S, I) ==
    IF I = {} THEN 0
    ELSE LET i == CHOOSE x \in I : TRUE IN S[i].quantity + QtySumIn(S, I \ {i})

StockIn(P, S, p) ==
    P[p].quantity
      - QtySumIn(S, {i \in DOMAIN S : S[i].product_id = p /\ ~S[i].is_returned})

(* C5: a return_sale of a sale gives the product the stock it had before   *)
(* the sale (the sale took its quantity, the return gives it back), sets   *)
(* is_returned, and deletes the sale's Bonus if and only if it is unpaid.  *)
RoundTripRestoresStock ==
    [][/\ Len(sales') = Len(sales) + 1
          => LET row == sales'[Len(sales')]
             IN StockIn(products', sales', row.product_id)
                   = StockIn(products, sales, row.product_id) - row.quantity
       /\ \A i \in DOMAIN sales :
             (i \in DOMAIN sales' /\ ~sales[i].is_returned /\ sales'[i].is_returned)
                => /\ StockIn(products', sales', sales[i].product_id)
                        = StockIn(products, sales, sales[i].product_id)
                            + sales[i].quantity
                   /\ bonuses' = {b \in bonuses : ~(b.sale_id = i /\ ~b.is_paid)}
       /\ (/\ last.op = "create_sale" /\ last.ok
           /\ last'.op = "return_sale" /\ last'.ok /\ last'.id = last.id)
             => /\ StockIn(products', sales', last.product) = last.stock
                /\ sales'[last.id].is_returned
                /\ \A b \in bonuses' : b.sale_id # last.id]_vars

(* The only sale, which earned a Bonus, has been returned and the Bonus is *)
(* gone.                                                                    *)
RoundTripWitness ==
    /\ last.op = "return_sale" /\ last.ok
    /\ Len(sales) = 1
    /\ sales[last.id].margin > 0
    /\ nextBonusId = 2
    /\ bonuses = {}

(* C6: a Sale row is never deleted, none of its fields but is_returned     *)
(* ever changes, is_returned never goes back to false, and a return        *)
(* succeeds only on a sale that was not returned.                          *)
SaleLifecycleMonotone ==
    [][/\ Len(sales') >= Len(sales)
       /\ \A i \in DOMAIN sales :
             /\ i \in DOMAIN sales'
             /\ [sales'[i] EXCEPT !.is_returned = FALSE]
                   = [sales[i] EXCEPT !.is_returned = FALSE]
             /\ sales[i].is_returned => sales'[i].is_returned
       /\ (/\ last'.op = "return_sale" /\ last'.ok
           /\ (last' # last \/ tables' # tables))
             => /\ last'.id \in DOMAIN sales
                /\ ~sales[last'.id].is_returned]_vars

(* A sale was returned and a later create_sale succeeded.                  *)
ReturnedSaleKeptWitness ==
    /\ last.op = "create_sale" /\ last.ok
    /\ \E i \in DOMAIN sales : sales[i].is_returned

(* C7: return_sale of an id that no sale has, or of a sale already         *)
(* returned, fails and changes no table; any other return succeeds.        *)
FailedReturnChangesNothing ==
    [][(last'.op = "return_sale" /\ (last' # last \/ tables' # tables))
          => IF last'.id \notin DOMAIN sales
             THEN ~last'.ok /\ last'.err = "not_found" /\ tables' = tables
             ELSE IF sales[last'.id].is_returned
             THEN ~last'.ok /\ last'.err = "already_returned" /\ tables' = tables
             ELSE last'.ok]_vars

(* A return of an already returned sale was refused.                       *)
SecondReturnRefusedWitness ==
    /\ last.op = "return_sale" /\ last.err = "already_returned"
    /\ sales[last.id].is_returned

(* The tier a monthly total selects and the Bonus it gives a margin: the   *)
(* lowest tier holding the total, the margin times its percent (in         *)
(* hundredths).                                                             *)
TierOf(total) ==
    IF TiersHolding(total) = {} THEN None
    ELSE CHOOSE r \in TiersHolding(total) : \A q \in TiersHolding(total) : r <= q

BonusIsFromTotal(b, sale_id, total) ==
    /\ TierOf(total) # None
    /\ b.rule_id = TierOf(total)
    /\ b.percent_used = BonusRules[TierOf(total)].percent
    /\ b.amount = sales[sale_id].margin * BonusRules[TierOf(total)].percent

(* The agent's monthly margin before the sale just created, and with it.   *)
MarginBeforeLast ==
    MarginSum(MonthSalesOf(sales[last.id].agent_id, sales[last.id].sale_date)
                 \ {last.id})

MarginWithLast ==
    MarginSum(MonthSalesOf(sales[last.id].agent_id, sales[last.id].sale_date))

CalculateBonusHalfOpen ==
    (last.op = "create_sale" /\ last.ok)
       => LET c == last.calc
          IN IF c.rule # None
             THEN /\ c.rule \in TiersHolding(c.month_sales)
                  /\ c.amount = sales[last.id].margin * BonusRules[c.rule].percent
             ELSE /\ TiersHolding(c.month_sales) = {}
                  /\ c.amount = 0

(* A monthly total equal to the first tier's max_amount got the second     *)
(* tier.                                                                    *)
TotalAtTierBoundWitness ==
    /\ last.op = "create_sale" /\ last.ok
    /\ last.calc.month_sales = BonusRules[1].max_amount
    /\ last.calc.rule = 2
    /\ last.calc.amount = sales[last.id].margin * BonusRules[2].percent

(* C10: at every sale exactly one tier of the installed table holds the    *)
(* agent's monthly margin total.                                           *)
ExactlyOneTierPerSale ==
    (last.op = "create_sale" /\ last.ok)
       => Cardinality(TiersHolding(last.calc.month_sales)) = 1

(* The installed tiers do not overlap and leave no gap between 0 and the   *)
(* stored upper bound: each starts where the one before it ends.           *)
TiersContiguousUpToStoredBound ==
    /\ BonusRules[1].min_amount = 0
    /\ \A r \in RuleIds \ {1} : BonusRules[r].min_amount = BonusRules[r - 1].max_amount
    /\ \A r \in RuleIds : BonusRules[r].min_amount < BonusRules[r].max_amount
    /\ BonusRules[Len(BonusRules)].max_amount = InfStored
    /\ (last.op = "create_sale" /\ last.ok
        /\ last.calc.month_sales >= 0 /\ last.calc.month_sales < InfStored)
          => Cardinality(TiersHolding(last.calc.month_sales)) = 1

(* C11: every Sale has at most one Bonus row; a Bonus appears only in the  *)
(* create_sale call that made its Sale, linked to that new Sale, never to  *)
(* a sale that existed before the call.                                    *)
OneBonusPerSaleMadeAtItsSale ==
    [][/\ \A i \in DOMAIN sales' : Cardinality(BonusOfSale(bonuses', i)) <= 1
       /\ \A b \in bonuses' : b.sale_id \in DOMAIN sales'
       /\ \A b \in bonuses' :
             (\A c \in bonuses : c.id # b.id)
                => /\ Len(sales') = Len(sales) + 1
                   /\ b.sale_id = Len(sales')
                   /\ last'.op = "create_sale" /\ last'.ok
                   /\ last'.id = b.sale_id]_vars

(* Two sales, each with its own Bonus.                                     *)
TwoSalesTwoBonusesWitness ==
    /\ Len(sales) = 2
    /\ \A i \in 1 .. 2 : Cardinality(BonusOfSale(bonuses, i)) = 1

(* C12: a Bonus that is paid stays in the table as it is (amount,          *)
(* percent_used, is_paid, paid_at), whatever operation comes next: a sale, *)
(* a return of its sale, a payout, a reset.                                *)
PaidBonusIsKept ==
    [][\A b \in bonuses : b.is_paid => b \in bonuses']_vars

(* The sale of a paid Bonus was returned and the Bonus is still there.     *)
PaidBonusSurvivedReturnWitness ==
    /\ last.op = "return_sale" /\ last.ok
    /\ \E b \in bonuses : b.sale_id = last.id /\ b.is_paid /\ b.paid_at # None

RECURSIVE AmountsOf(_)
AmountsOf(B) ==
    IF B = {} THEN 0
    ELSE LET b == CHOOSE x \in B : TRUE IN b.amount + AmountsOf(B \ {b})

(* C14: pay_bonuses(agent) marks each unpaid Bonus of the agent paid, with *)
(* a paid_at, returns the sum of their amounts, leaves the agent no unpaid *)
(* Bonus and leaves every Bonus of another agent as it was.                *)
PayBonusesPaysTheAgentsUnpaid ==
    [][(last'.op = "pay_bonuses" /\ (last' # last \/ tables' # tables))
          => LET a == last'.id
                 due == {b \in bonuses : b.agent_id = a /\ ~b.is_paid}
             IN /\ last'.ok
                /\ last'.stock = AmountsOf(due)
                /\ bonuses' = (bonuses \ due)
                      \cup {[b EXCEPT !.is_paid = TRUE, !.paid_at = now] : b \in due}
                /\ \A b \in bonuses' :
                      b.agent_id = a => b.is_paid /\ b.paid_at # None
                /\ \A b \in bonuses : b.agent_id # a => b \in bonuses'
                /\ Cardinality(bonuses') = Cardinality(bonuses)]_vars

(* An agent was paid a positive sum while another agent's Bonus stayed     *)
(* unpaid.                                                                  *)
PaidOneAgentWitness ==
    /\ last.op = "pay_bonuses" /\ last.ok /\ last.stock > 0
    /\ \E b \in bonuses : b.agent_id = last.id /\ b.is_paid
    /\ \E b \in bonuses : b.agent_id # last.id /\ ~b.is_paid

(* C15: a pay_bonuses call made when the agent has no unpaid Bonus returns *)
(* 0 and writes to no table.                                               *)
PayWithNothingUnpaidWritesNothing ==
    [][(/\ last'.op = "pay_bonuses"
        /\ (last' # last \/ tables' # tables)
        /\ {b \in bonuses : b.agent_id = last'.id /\ ~b.is_paid} = {})
          => /\ last'.stock = 0
             /\ tables' = tables]_vars

(* C15, the part that holds: such a call returns 0 and leaves every table  *)
(* but ActionLog as it was.                                                *)
PayWithNothingUnpaidOnlyLogs ==
    [][(/\ last'.op = "pay_bonuses"
        /\ (last' # last \/ tables' # tables)
        /\ {b \in bonuses : b.agent_id = last'.id /\ ~b.is_paid} = {})
          => /\ last'.stock = 0
             /\ <<products, sales, stockLog, bonuses, nextBonusId, priceHistory>>'
                   = <<products, sales, stockLog, bonuses, nextBonusId, priceHistory>>
             /\ actionLog' = actionLog + 1]_vars

(* The 'out' StockLog rows that refer to Sale i.                           *)
OutRowsOf(L, i) ==
    {n \in DOMAIN L : L[n].operation_type = "out" /\ L[n].reference_id = i}

(* C16: a create_sale call that fails at the lookup, the stock check, the  *)
(* insert or the bonus computation changes no table, and it had committed  *)
(* nothing before; Sale rows appear one at a time, each together with its  *)
(* 'out' StockLog row, in the commit of a call that had passed every step; *)
(* a Bonus appears only in such a commit, for the new Sale; a call that    *)
(* succeeds has its Sale and its 'out' row in the tables.                  *)
CreateSaleAllOrNothing ==
    [][/\ (/\ last' # last /\ last'.op = "create_sale" /\ ~last'.ok
           /\ last'.err # "log_locked")
             => /\ tables' = tables
                /\ \A s \in Sessions :
                      pc'[s] # pc[s]
                         => pc[s] \in {"idle", "checked", "flushed", "bonus"}
                            /\ pc'[s] = "idle"
       /\ \A s \in Sessions :
             (pc[s] \in {"checked", "flushed", "bonus"} /\ pc'[s] = "idle")
                => tables' = tables /\ ~last'.ok
       /\ Len(sales') # Len(sales)
             => /\ Len(sales') = Len(sales) + 1
                /\ \E s \in Sessions : pc[s] = "bonus" /\ pc'[s] = "committed"
       /\ \A i \in DOMAIN sales' :
             /\ Cardinality(OutRowsOf(stockLog', i)) = 1
             /\ \A n \in OutRowsOf(stockLog', i) :
                   /\ stockLog'[n].product_id = sales'[i].product_id
                   /\ stockLog'[n].quantity = sales'[i].quantity
       /\ \A n \in DOMAIN stockLog' :
             stockLog'[n].operation_type # "in"
                => stockLog'[n].reference_id \in DOMAIN sales'
       /\ \A b \in bonuses' :
             /\ b.sale_id \in DOMAIN sales'
             /\ b \notin bonuses => b.sale_id = Len(sales') /\ Len(sales') # Len(sales)
       /\ (last' # last /\ last'.op = "create_sale" /\ last'.ok)
             => last'.id \in DOMAIN sales']_vars

(* A call was rolled back after its flush, while the table holds the sale  *)
(* of a call that committed.                                               *)
RolledBackAfterFlushWitness ==
    /\ last.op = "create_sale" /\ ~last.ok /\ last.err = "error"
    /\ Len(sales) = 1 /\ Len(stockLog) = Len(InitDb.stockLog) + 1
    /\ AllIdle

(* The operations reserved to admins.                                      *)
AdminOps == {"return_sale", "pay_bonuses", "set_retail_price", "bulk_update"}

(* C17: an admin operation called by a user who is not in the admin list   *)
(* is rejected and changes no table.                                       *)
AdminOpsRejectNonAdmins ==
    [][(/\ last' # last \/ tables' # tables
        /\ last'.op \in AdminOps
        /\ last'.actor \notin AdminIds)
          => ~last'.ok /\ tables' = tables]_vars

(* C18: set_retail_price with a price that is not positive is rejected and *)
(* leaves the product's retail_price and the PriceHistory table as they    *)
(* were.                                                                    *)
SetRetailPriceRejectsNonPositive ==
    [][(/\ last' # last \/ tables' # tables
        /\ last'.op = "set_retail_price"
        /\ last'.args.new_price[1] <= 0)
          => /\ ~last'.ok
             /\ products' = products
             /\ priceHistory' = priceHistory]_vars

(* C19: set_retail_price on an existing product overwrites retail_price    *)
(* and appends one PriceHistory row (old price, new price) if and only if  *)
(* the product had a retail price; on an id no product has it fails and    *)
(* changes nothing.                                                        *)
SetRetailPriceKeepsHistory ==
    [][(/\ last' # last \/ tables' # tables
        /\ last'.op = "set_retail_price")
          => LET p == last'.product
                 price == last'.args.new_price[1]
             IN IF p \in DOMAIN products
                THEN /\ last'.ok
                     /\ products' = [products EXCEPT ![p].retail_price = Some(price)]
                     /\ IF products[p].retail_price # NULL
                        THEN priceHistory' = Append(priceHistory,
                                [product_id |-> p,
                                 old_price |-> products[p].retail_price[1],
                                 new_price |-> price,
                                 changed_by_id |-> last'.actor])
                        ELSE priceHistory' = priceHistory
                ELSE ~last'.ok /\ tables' = tables]_vars

(* C19, the part that holds: the same with "had a retail price other than  *)
(* 0" in the place of "had a retail price".                                *)
SetRetailPriceKeepsHistoryOfNonZero ==
    [][(/\ last' # last \/ tables' # tables
        /\ last'.op = "set_retail_price")
          => LET p == last'.product
                 price == last'.args.new_price[1]
             IN IF p \in DOMAIN products
                THEN /\ last'.ok
                     /\ products' = [products EXCEPT ![p].retail_price = Some(price)]
                     /\ IF products[p].retail_price \notin {NULL, Some(0)}
                        THEN priceHistory' = Append(priceHistory,
                                [product_id |-> p,
                                 old_price |-> products[p].retail_price[1],
                                 new_price |-> price,
                                 changed_by_id |-> last'.actor])
                        ELSE priceHistory' = priceHistory
                ELSE ~last'.ok /\ tables' = tables]_vars

(* A bulk_update that comes right after a preview with the same product    *)
(* ids, fixed price and percent.                                           *)
BulkUpdateAfterItsPreview ==
    /\ last.op = "preview"
    /\ last'.op = "bulk_update"
    /\ last'.args = last.args

(* C20 as claimed: such a bulk_update gives every product of the preview   *)
(* the new price the preview reported, and every product it changes is in  *)
(* the preview.                                                            *)
BulkUpdateWritesThePreview ==
    [][BulkUpdateAfterItsPreview
          => /\ \A row \in last.preview :
                   products'[row.id].retail_price = Some(row.new)
             /\ \A p \in DOMAIN products :
                   products'[p] # products[p]
                      => \E row \in last.preview : row.id = p]_vars

(* C20 as amended: such a bulk_update gives every product of the preview   *)
(* the new price the preview reported; the preview holds products of the   *)
(* list only, as many as the list has existing products but no more than   *)
(* its limit, each once; bulk_update changes products of the list only,    *)
(* and every product it changes is in the preview when the list has no     *)
(* more existing products than the limit.                                  *)
BulkUpdateWritesPreviewedPrices ==
    [][BulkUpdateAfterItsPreview
          => LET listed == last.args.ids \cap DOMAIN products
                 limit == last.stock
                 shown == {row.id : row \in last.preview}
                 moded == last.args.new_price # NULL
                             \/ last.args.increase_percent # NULL
             IN /\ \A row \in last.preview :
                      /\ products'[row.id].retail_price = Some(row.new)
                      /\ row.old = OrZero(products[row.id].retail_price)
                /\ shown \subseteq listed
                /\ Cardinality(shown) = Cardinality(last.preview)
                /\ Cardinality(shown)
                      = IF ~moded THEN 0
                        ELSE IF Cardinality(listed) <= limit
                        THEN Cardinality(listed) ELSE limit
                /\ \A p \in DOMAIN products :
                      products'[p] # products[p] => p \in listed
                /\ last'.stock = IF moded THEN Cardinality(listed) ELSE 0
                /\ Cardinality(listed) <= limit
                      => \A p \in DOMAIN products :
                            products'[p] # products[p] => p \in shown]_vars

(* A preview with limit 1 of a percent markup on two existing products     *)
(* shows one of them, and the bulk_update with the same arguments can      *)
(* follow.                                                                  *)
TruncatedPreviewWitness ==
    /\ last.op = "preview" /\ last.stock = 1
    /\ last.args.increase_percent # NULL
    /\ Cardinality(last.args.ids \cap DOMAIN products) = 2
    /\ Cardinality(last.preview) = 1
    /\ \E p \in DOMAIN products : Truthy(products[p].retail_price)
    /\ actionLog < MaxLog
    /\ Len(priceHistory) < MaxHistory

(* A completed bulk_update call.                                           *)
BulkUpdateStep ==
    /\ last' # last \/ tables' # tables
    /\ last'.op = "bulk_update"

(* The products a bulk_update call selects: those of its id list that      *)
(* exist.                                                                   *)
SelectedBy(args) == args.ids \cap DOMAIN products

(* C21: bulk_update in percent mode sets the retail_price of each selected *)
(* product to its own cost_price marked up by the percent, whatever the    *)
(* other products and its current retail price are; in fixed mode every    *)
(* selected product receives the one price given.                          *)
BulkUpdatePricesEachOnItsCost ==
    [][BulkUpdateStep
          => LET args == last'.args
             IN \A p \in SelectedBy(args) :
                   IF args.increase_percent # NULL
                   THEN products'[p].retail_price
                           = Some((products[p].cost_price
                                     * (100 + args.increase_percent[1])) \div 100)
                   ELSE args.new_price # NULL
                           => products'[p].retail_price = args.new_price]_vars

(* A percent markup has given two products of different cost different     *)
(* prices, 1000 -> 1100 and 5000 -> 5500, one of them priced 1500 or 2000  *)
(* before.                                                                  *)
HeterogeneousMarkupWitness ==
    /\ last.op = "bulk_update"
    /\ last.args.increase_percent = Some(10)
    /\ {1, 2} \subseteq last.args.ids
    /\ products[1].retail_price = Some(1100)
    /\ products[2].retail_price = Some(5500)
    /\ \E i \in 1..Len(priceHistory) :
          /\ priceHistory[i].product_id = 1
          /\ priceHistory[i].old_price \in {1500, 2000}
          /\ priceHistory[i].new_price = 1100

BulkUpdateTwiceIsOnce ==
    [][(/\ BulkUpdateStep
        /\ last.op = "bulk_update"
        /\ last'.args = last.args)
          => \A p \in DOMAIN products :
                products'[p].retail_price = products[p].retail_price]_vars

(* A percent markup has been applied to product 1 when it carried that     *)
(* markup's price already: the PriceHistory row goes from 1100 to 1100.    *)
MarkupReappliedWitness ==
    /\ last.op = "bulk_update"
    /\ last.args.increase_percent = Some(10)
    /\ 1 \in last.args.ids
    /\ products[1].retail_price = Some(1100)
    /\ \E i \in 1..Len(priceHistory) :
          /\ priceHistory[i].product_id = 1
          /\ priceHistory[i].old_price = 1100
          /\ priceHistory[i].new_price = 1100

(* ------------------------- properties of uploads ----------------------- *)
(* A completed create_batch call that got as far as the rows of its file.  *)
RowsReadStep ==
    /\ last' # last \/ tables' # tables
    /\ last'.op = "create_batch"
    /\ last'.err \notin {"missing_columns", "no_data", "integrity"}

(* What a row of a file says: the EAN it is filed under ("" for none), its *)
(* quantity and price; the row passes validation when it has an EAN and    *)
(* neither number is negative.  File row i is line i + 1 of the sheet.     *)
EanOf(row) == IF row.ean = NULL THEN "" ELSE Strip(row.ean[1])
QuantityOf(row) == IF row.quantity = NULL THEN 0 ELSE row.quantity[1]
PriceOf(row) == IF row.price_eur = NULL THEN 0 ELSE row.price_eur[1]
IsBlank(row) == \A f \in DOMAIN row : row[f] = NULL
IsValid(row) == EanOf(row) # "" /\ QuantityOf(row) >= 0 /\ PriceOf(row) >= 0
LineOf(i) == i + 1

(* The products a step has added to the table, and the row errors of the   *)
(* call at line l.                                                          *)
AddedProducts == {p \in DOMAIN products' : p \notin DOMAIN products}
ErrorsAt(errors, l) == {n \in DOMAIN errors : errors[n].line = l}

(* C24: for an EAN that several rows of the file carry, the upload creates *)
(* exactly one Product, with the quantity and price of the first of these  *)
(* rows, and collects one duplicate error for each later one.              *)
DuplicateEanKeepsFirstRow ==
    [][RowsReadStep
          => LET rows == last'.args.file.rows
                 Carrying(e) == {i \in DOMAIN rows : EanOf(rows[i]) = e}
             IN \A i \in DOMAIN rows :
                   LET e == EanOf(rows[i])
                       first == CHOOSE j \in Carrying(e) :
                                    \A k \in Carrying(e) : j <= k
                   IN (e # "" /\ Cardinality(Carrying(e)) > 1 /\ i = first)
                         => /\ Cardinality({p \in AddedProducts :
                                               products'[p].ean = e}) = 1
                            /\ \A p \in AddedProducts :
                                  products'[p].ean = e
                                     => /\ products'[p].quantity
                                              = QuantityOf(rows[first])
                                        /\ products'[p].price_eur
                                              = PriceOf(rows[first])
                            /\ \A k \in Carrying(e) \ {first} :
                                  \E n \in ErrorsAt(last'.errors, LineOf(k)) :
                                     last'.errors[n].kind = "duplicate"]_vars

(* C24, the part that holds: the same for an EAN whose first row passes    *)
(* validation.                                                              *)
DuplicateEanKeepsValidFirstRow ==
    [][RowsReadStep
          => LET rows == last'.args.file.rows
                 Carrying(e) == {i \in DOMAIN rows : EanOf(rows[i]) = e}
             IN \A i \in DOMAIN rows :
                   LET e == EanOf(rows[i])
                       first == CHOOSE j \in Carrying(e) :
                                    \A k \in Carrying(e) : j <= k
                   IN (/\ e # "" /\ Cardinality(Carrying(e)) > 1 /\ i = first
                       /\ IsValid(rows[first]))
                         => /\ Cardinality({p \in AddedProducts :
                                               products'[p].ean = e}) = 1
                            /\ \A p \in AddedProducts :
                                  products'[p].ean = e
                                     => /\ products'[p].quantity
                                              = QuantityOf(rows[first])
                                        /\ products'[p].price_eur
                                              = PriceOf(rows[first])
                            /\ \A k \in Carrying(e) \ {first} :
                                  /\ Cardinality(ErrorsAt(last'.errors,
                                                          LineOf(k))) = 1
                                  /\ \A n \in ErrorsAt(last'.errors, LineOf(k)) :
                                        last'.errors[n].kind = "duplicate"]_vars

(* C25: no two Products of one Batch have the same EAN.                    *)
EanUniquePerBatch ==
    \A p, q \in DOMAIN products :
       (p # q /\ products[p].batch_id = products[q].batch_id)
          => products[p].ean # products[q].ean

(* Two Products of different Batches have the same EAN, after an upload    *)
(* whose file carried an EAN twice.                                        *)
SameEanInTwoBatchesWitness ==
    /\ \E p, q \in DOMAIN products :
          /\ products[p].ean = products[q].ean
          /\ products[p].batch_id # products[q].batch_id
    /\ last.op = "create_batch" /\ last.ok
    /\ \E n \in DOMAIN last.errors : last.errors[n].kind = "duplicate"

(* C26: an upload of which every row was rejected fails and leaves the     *)
(* Batch, Product and StockLog tables, and every other table, as they      *)
(* were.                                                                    *)
UploadWithoutValidRowPersistsNothing ==
    [][(/\ RowsReadStep
        /\ \A i \in DOMAIN last'.args.file.rows :
              IsBlank(last'.args.file.rows[i])
                 \/ ErrorsAt(last'.errors, LineOf(i)) # {})
          => /\ ~last'.ok
             /\ batches' = batches
             /\ products' = products
             /\ stockLog' = stockLog
             /\ tables' = tables]_vars

(* An upload of two rejected rows has failed on a database that holds a    *)
(* batch.                                                                   *)
RejectedUploadWitness ==
    /\ last.op = "create_batch" /\ ~last.ok /\ last.err = "no_products"
    /\ Len(last.errors) = 2
    /\ Len(last.args.file.rows) = 2
    /\ Len(batches) = 1

(* The 'in' StockLog rows of a product.                                    *)
InRowsOf(L, p) ==
    {n \in DOMAIN L : L[n].operation_type = "in" /\ L[n].product_id = p}

(* C27: a successful upload adds one Batch, at least one Product, all of   *)
(* that Batch, and their StockLog rows in one step, and a failed one adds  *)
(* nothing; afterwards every Product has exactly one 'in' StockLog row,    *)
(* with the product's quantity, the warehouse of its Batch and the Batch   *)
(* as reference, and every StockLog row is of a Product.                   *)
UploadCommitsBatchProductsLedger ==
    [][(/\ last' # last \/ tables' # tables
        /\ last'.op = "create_batch")
          => IF last'.ok
             THEN /\ Len(batches') = Len(batches) + 1
                  /\ SubSeq(batches', 1, Len(batches)) = batches
                  /\ last'.id = Len(batches')
                  /\ AddedProducts # {}
                  /\ Cardinality(AddedProducts) = last'.stock
                  /\ \A p \in DOMAIN products : /\ p \in DOMAIN products'
                                                /\ products'[p] = products[p]
                  /\ \A p \in AddedProducts : products'[p].batch_id = last'.id
                  /\ SubSeq(stockLog', 1, Len(stockLog)) = stockLog
                  /\ Len(stockLog') = Len(stockLog) + Cardinality(AddedProducts)
                  /\ \A p \in DOMAIN products' :
                        /\ Cardinality(InRowsOf(stockLog', p)) = 1
                        /\ \A n \in InRowsOf(stockLog', p) :
                              /\ stockLog'[n].quantity = products'[p].quantity
                              /\ stockLog'[n].reference_id = products'[p].batch_id
                              /\ stockLog'[n].warehouse
                                    = batches'[products'[p].batch_id].warehouse
                  /\ \A n \in DOMAIN stockLog' :
                        stockLog'[n].product_id \in DOMAIN products'
             ELSE tables' = tables]_vars

(* An upload has brought two products, one of them received with quantity  *)
(* 0, into a database that held a batch.                                   *)
UploadOfTwoProductsWitness ==
    /\ last.op = "create_batch" /\ last.ok /\ last.stock = 2
    /\ Len(batches) = 2
    /\ \E p \in DOMAIN products :
          products[p].batch_id = 1 /\ products[p].quantity = 0
    /\ Cardinality({p \in DOMAIN products : products[p].batch_id = 2}) = 2

(* C28: every row without an EAN, with a negative quantity or a negative   *)
(* price gets an error and no Product; every other row that is not blank   *)
(* and is the first such row of its EAN becomes a Product with its         *)
(* quantity and price, and the upload succeeds when there is such a row.   *)
RowsValidatedOneByOne ==
    [][RowsReadStep
          => LET rows == last'.args.file.rows
                 kept == {i \in DOMAIN rows :
                             /\ IsValid(rows[i])
                             /\ \A j \in 1 .. (i - 1) :
                                   IsValid(rows[j])
                                      => EanOf(rows[j]) # EanOf(rows[i])}
             IN /\ \A i \in DOMAIN rows :
                      (~IsBlank(rows[i]) /\ ~IsValid(rows[i]))
                         => Cardinality(ErrorsAt(last'.errors, LineOf(i))) = 1
                /\ Cardinality(AddedProducts) = Cardinality(kept)
                /\ \A i \in kept :
                      \E p \in AddedProducts :
                         /\ products'[p].ean = EanOf(rows[i])
                         /\ products'[p].quantity = QuantityOf(rows[i])
                         /\ products'[p].price_eur = PriceOf(rows[i])
                /\ kept # {} => last'.ok]_vars

(* C28, the part that holds: the same, with a row kept when it passes      *)
(* validation and no earlier row, rejected or not, carries its EAN.        *)
RowsOfNewEanValidatedOneByOne ==
    [][RowsReadStep
          => LET rows == last'.args.file.rows
                 kept == {i \in DOMAIN rows :
                             /\ IsValid(rows[i])
                             /\ \A j \in 1 .. (i - 1) :
                                   EanOf(rows[j]) # EanOf(rows[i])}
             IN /\ \A i \in DOMAIN rows :
                      (~IsBlank(rows[i]) /\ ~IsValid(rows[i]))
                         => Cardinality(ErrorsAt(last'.errors, LineOf(i))) = 1
                /\ Cardinality(AddedProducts) = Cardinality(kept)
                /\ \A i \in kept :
                      \E p \in AddedProducts :
                         /\ products'[p].ean = EanOf(rows[i])
                         /\ products'[p].quantity = QuantityOf(rows[i])
                         /\ products'[p].price_eur = PriceOf(rows[i])
                /\ kept # {} => last'.ok]_vars

(* C30: no step changes the cost_price or the quantity of a Product that   *)
(* is in the table, or removes it.                                          *)
CostAndReceivedQuantityFixed ==
    [][\A p \in DOMAIN products :
          /\ p \in DOMAIN products'
          /\ products'[p].cost_price = products[p].cost_price
          /\ products'[p].quantity = products[p].quantity]_vars

(* Product 1 has been priced and sold, and then a file with its EAN has    *)
(* been received as another batch.                                          *)
SameEanReceivedAgainWitness ==
    /\ last.op = "create_batch" /\ last.ok
    /\ products[1].retail_price # NULL
    /\ \E i \in DOMAIN sales : sales[i].product_id = 1
    /\ \E p \in DOMAIN products :
          /\ p # 1
          /\ products[p].ean = products[1].ean
          /\ products[p].batch_id = Len(batches)

(* C31: get_stock returns one row for each product that matches the given  *)
(* filters and whose quantity less its non-returned sales is above 0, with *)
(* that number as stock, and no other row; get_product_info fails for an   *)
(* id no product has and otherwise reports the quantity less the           *)
(* non-returned sales, whatever its sign.                                    *)
ListingsShowPositiveStockInfoShowsAny ==
    [][(last' # last \/ tables' # tables)
          => /\ last'.op = "get_stock"
                  => LET f == last'.args
                         Derived(p) == products[p].quantity - QtySum(NonReturnedOf(p))
                         matching ==
                             {p \in DOMAIN products :
                                 /\ f.warehouse \in {NULL, Some("")}
                                       \/ Some(batches[products[p].batch_id].warehouse)
                                             = f.warehouse
                                 /\ f.category \in {NULL, Some("")}
                                       \/ Contains(products[p].name, f.category[1])
                                 /\ f.size \in {NULL, Some("")}
                                       \/ Some(products[p].size) = f.size
                                 /\ Derived(p) > 0}
                     IN /\ {row.id : row \in last'.listing} = matching
                        /\ Cardinality(last'.listing) = Cardinality(matching)
                        /\ \A row \in last'.listing :
                              /\ row.stock = Derived(row.id)
                              /\ row.ean = products[row.id].ean
                              /\ row.cost_price = products[row.id].cost_price
                        /\ tables' = tables
             /\ last'.op = "get_product_info"
                  => /\ last'.ok = (last'.product \in DOMAIN products)
                     /\ last'.ok => last'.stock
                                       = products[last'.product].quantity
                                            - QtySum(NonReturnedOf(last'.product))
                     /\ tables' = tables]_vars

(* get_stock without a filter that applies has listed product 1 and not    *)
(* product 2, whose stock is below 0.                                       *)
NegativeStockNotListedWitness ==
    /\ last.op = "get_stock"
    /\ ~Given(last.args.warehouse) /\ ~Given(last.args.category)
    /\ ~Given(last.args.size)
    /\ {row.id : row \in last.listing} = {1}
    /\ products[2].quantity - QtySum(NonReturnedOf(2)) < 0

(* get_product_info has reported a stock below 0.                           *)
NegativeStockReportedWitness ==
    last.op = "get_product_info" /\ last.ok /\ last.stock < 0

(* A completed create_sale call that stored a Sale.                        *)
SaleStoredStep ==
    /\ last' # last \/ tables' # tables
    /\ last'.op = "create_sale" /\ last'.ok

(* C32: the Sale a successful create_sale stores has margin = (sale_price  *)
(* - cost_price) * quantity, margin_percent = (sale_price - cost_price) /  *)
(* sale_price * 100, or 0 when sale_price is 0, and the warehouse of the   *)
(* product's batch.                                                         *)
SaleMarginIsPriceLessCost ==
    [][SaleStoredStep
          => LET s == sales'[last'.id]
                 cost == products[s.product_id].cost_price
             IN /\ s.margin = (s.sale_price - cost) * s.quantity
                /\ s.margin_percent[2] # 0
                /\ IF s.sale_price = 0 THEN s.margin_percent[1] = 0
                   ELSE s.margin_percent[1] * s.sale_price
                           = (s.sale_price - cost) * 100 * s.margin_percent[2]
                /\ s.warehouse = batches[products[s.product_id].batch_id].warehouse]_vars

(* C32, the part that holds: the same with margin_percent 0 for every      *)
(* sale_price that is not above 0.                                          *)
SaleMarginIsPriceLessCostAboveZero ==
    [][SaleStoredStep
          => LET s == sales'[last'.id]
                 cost == products[s.product_id].cost_price
             IN /\ s.margin = (s.sale_price - cost) * s.quantity
                /\ s.margin_percent[2] # 0
                /\ IF s.sale_price <= 0 THEN s.margin_percent[1] = 0
                   ELSE s.margin_percent[1] * s.sale_price
                           = (s.sale_price - cost) * 100 * s.margin_percent[2]
                /\ s.warehouse = batches[products[s.product_id].batch_id].warehouse]_vars

(* The scenario of the specification: two units of the product of cost     *)
(* 1000 sold at 1500 have margin 1000 and margin_percent 100/3.            *)
ScenarioMargin ==
    \A i \in DOMAIN sales :
       (sales[i].product_id = 1 /\ sales[i].sale_price = 1500
        /\ sales[i].quantity = 2)
          => /\ sales[i].margin = 1000
             /\ sales[i].margin_percent[1] * 3 = sales[i].margin_percent[2] * 100
             /\ sales[i].warehouse = "w1"

(* The sum of the margins of the rows I of the Sale table S.               *)
RECURSIVE MarginSumIn(_, _)
MarginSumIn(S, I) ==
    IF I = {} THEN 0
    ELSE LET i == CHOOSE x \in I : TRUE IN S[i].margin + MarginSumIn(S, I \ {i})

OwnSales(S, a) == SelectSeq(S, LAMBDA row : row.agent_id = a)

(* C34: what calculate_bonus returns for a sale of agent a, and the Bonus  *)
(* the sale books, are what it returns on the agent's own rows of the Sale *)
(* table alone: the rows of other agents, their returns and the Bonus      *)
(* table have no part in it.                                                *)
TierFromOwnSalesOnly ==
    [][SaleStoredStep
          => LET row == sales'[last'.id]
                 own == CalculateBonus(OwnSales(sales', row.agent_id),
                                       row.agent_id, row.margin, now)
             IN /\ last'.calc = own
                /\ \A b \in bonuses' \ bonuses :
                      /\ b.agent_id = row.agent_id
                      /\ b.sale_id = last'.id
                      /\ own.rule # None
                      /\ b.percent_used = BonusRules[own.rule].percent
                      /\ b.amount = own.amount
                /\ (bonuses' \ bonuses # {}) = (own.amount > 0 /\ own.rule # None)
                /\ \A b \in bonuses : b \in bonuses']_vars

(* An agent has sold while another agent had a sale in the month, and a    *)
(* paid Bonus, whose margin added to the agent's own would have chosen     *)
(* another tier.                                                            *)
OtherAgentsSaleLeftOutWitness ==
    /\ last.op = "create_sale" /\ last.ok
    /\ \E i \in DOMAIN sales :
          /\ sales[i].agent_id # sales[last.id].agent_id
          /\ ~sales[i].is_returned
          /\ sales[i].sale_date = sales[last.id].sale_date
          /\ TierOf(last.calc.month_sales + sales[i].margin) # last.calc.rule
          /\ \E b \in bonuses : b.sale_id = i /\ b.is_paid
    /\ \E b \in bonuses : b.sale_id = last.id

(* The sum of the quantities of the first n rows of the StockLog table L   *)
(* that are of product p and of one type, and the balance of p in L:       *)
(* received, less sold, plus returned.                                      *)
RECURSIVE LogQtySum(_, _, _, _)
LogQtySum(L, p, type, n) ==
    IF n = 0 THEN 0
    ELSE LogQtySum(L, p, type, n - 1)
         + (IF L[n].product_id = p /\ L[n].operation_type = type
            THEN L[n].quantity ELSE 0)

LedgerBalance(L, p) ==
    LogQtySum(L, p, "in", Len(L)) - LogQtySum(L, p, "out", Len(L))
       + LogQtySum(L, p, "return", Len(L))

(* C35: every step keeps the StockLog rows there are and at most appends   *)
(* rows; a successful create_sale appends one 'out' row and a successful   *)
(* return_sale one 'return' row, each with the product, quantity and       *)
(* warehouse of the Sale and its id as reference; in every state the       *)
(* balance of each product in the StockLog is its quantity less its        *)
(* non-returned sales.                                                      *)
LedgerAppendOnlyAndAgreesWithStock ==
    /\ [](\A p \in DOMAIN products :
             LedgerBalance(stockLog, p) = StockIn(products, sales, p))
    /\ [][/\ Len(stockLog') >= Len(stockLog)
          /\ SubSeq(stockLog', 1, Len(stockLog)) = stockLog
          /\ (/\ last' # last \/ tables' # tables
              /\ last'.op \in {"create_sale", "return_sale"} /\ last'.ok)
                => /\ Len(stockLog') = Len(stockLog) + 1
                   /\ LET sale == sales'[last'.id]
                          entry == stockLog'[Len(stockLog')]
                      IN /\ entry.operation_type
                               = (IF last'.op = "create_sale" THEN "out"
                                  ELSE "return")
                         /\ entry.product_id = sale.product_id
                         /\ entry.quantity = sale.quantity
                         /\ entry.warehouse = sale.warehouse
                         /\ entry.reference_id = last'.id]_vars

(* The StockLog holds 'in', 'out' and 'return' rows of product 1, among    *)
(* them the 'in' row of a later upload, and a sale of it is not returned.  *)
LedgerOfAllKindsWitness ==
    /\ \A type \in {"in", "out", "return"} :
          \E n \in DOMAIN stockLog :
             stockLog[n].operation_type = type /\ stockLog[n].product_id = 1
    /\ \E i \in DOMAIN sales : sales[i].product_id = 1 /\ ~sales[i].is_returned
    /\ \E n \in DOMAIN stockLog :
          stockLog[n].operation_type = "in" /\ stockLog[n].reference_id = Len(batches)
                                            /\ Len(batches) > Len(InitDb.batches)

(* The 'return' rows of the StockLog table L that refer to one sale.        *)
ReturnRowsOf(L, sale_id) ==
    {n \in DOMAIN L : L[n].operation_type = "return" /\ L[n].reference_id = sale_id}

(* C36: of the return_sale calls on one sale, however their statements     *)
(* interleave, a call that ends after the sale was returned fails as       *)
(* already returned, so at most one succeeds; and a returned sale has      *)
(* exactly one 'return' StockLog row, a sale not returned none.            *)
OneReturnPerSale ==
    /\ [](\A i \in DOMAIN sales :
             Cardinality(ReturnRowsOf(stockLog, i))
                = (IF sales[i].is_returned THEN 1 ELSE 0))
    /\ [][\A s \in Sessions :
             (/\ pc[s] \in {"returning", "bonus_read"} /\ pc'[s] = "idle"
              /\ sales[loc[s].id].is_returned)
                => ~last'.ok /\ last'.err = "already_returned"]_vars

(* C37: a Bonus that a successful pay_bonuses counted in its total is      *)
(* paid when the call ends, and no later step of any call removes a paid   *)
(* Bonus or turns it unpaid, however a return_sale of the sale is          *)
(* interleaved with the payout.                                             *)
CountedBonusNeverDeleted ==
    [][/\ \A s \in Sessions :
             (pc[s] = "paying" /\ pc'[s] = "idle" /\ last'.ok)
                => \A b \in loc[s].rows :
                      \E c \in bonuses' : c.id = b.id /\ c.is_paid
       /\ \A b \in bonuses :
             b.is_paid => \E c \in bonuses' : c.id = b.id /\ c.is_paid]_vars

(* C38: the total a successful pay_bonuses call returns is the sum of the  *)
(* amounts of the bonuses that its commit turned from unpaid to paid, so   *)
(* that over all calls every Bonus is counted once.                        *)
PayoutCountsEachBonusOnce ==
    [][\A s \in Sessions :
          (pc[s] = "paying" /\ pc'[s] = "idle" /\ last'.ok)
             => last'.stock
                   = SumAmount({b \in bonuses :
                                   /\ ~b.is_paid
                                   /\ \E c \in bonuses' :
                                         c.id = b.id /\ c.is_paid})]_vars

(* The PriceHistory rows of one product, oldest first.                      *)
HistoryOf(H, p) == SelectSeq(H, LAMBDA row : row.product_id = p)

(* C39: every step keeps the PriceHistory rows there are and at most       *)
(* appends rows; in every state, for each product with PriceHistory rows,  *)
(* the new_price of its latest row is its retail_price and the old_price   *)
(* of each row is the new_price of the product's row before it.            *)
PriceHistoryIsAChain ==
    /\ [](\A p \in DOMAIN products :
             LET rows == HistoryOf(priceHistory, p)
             IN /\ rows # << >>
                      => products[p].retail_price = Some(rows[Len(rows)].new_price)
                /\ \A n \in 2 .. Len(rows) :
                      rows[n].old_price = rows[n - 1].new_price)
    /\ [][/\ Len(priceHistory') >= Len(priceHistory)
          /\ SubSeq(priceHistory', 1, Len(priceHistory)) = priceHistory]_vars

(* C40: no create_sale with a quantity <= 0 gets through, so no Sale row   *)
(* has a quantity <= 0, a failed create_sale changes no table, and in      *)
(* every state the current stock of each product lies between 0 and the    *)
(* quantity received, also after returns.                                  *)
NonPositiveQuantityRejected ==
    /\ [](/\ \A i \in DOMAIN sales : sales[i].quantity > 0
          /\ \A p \in DOMAIN products :
                /\ CurrentStock(products, sales, p) <= products[p].quantity
                /\ CurrentStock(products, sales, p) >= 0)
    /\ [][(last'.op = "create_sale" /\ ~last'.ok) => tables' = tables]_vars

====
